---------------------------- MODULE Spec2Model ----------------------------
(***************************************************************************)
(* TickTick MCP server (src/src/index.js): the tools/call dispatcher, the  *)
(* 112 tool handlers and makeTickTickRequest, as a state machine over the  *)
(* tool invocations in flight.                                             *)
(*                                                                         *)
(* A JavaScript value that may be undefined is a sequence of length 0      *)
(* (undefined) or 1 (the value).  An argument object is a function from    *)
(* the names of the fields it has to their values.  A string built by      *)
(* concatenation (a URL, an error message) is the sequence of its parts.   *)
(* The query string of an endpoint is spelled out for getTasks and         *)
(* getProductivityReport: for the others a step of the tool table records  *)
(* whether its endpoint carries one.  Standard output is the set of the    *)
(* lines written to it.                                                    *)
(***************************************************************************)
EXTENDS Integers, Sequences, FiniteSets, TLC

\* ------------------------------------------------------------------ bounds
\* number of tools/call requests the host sends in one run
MaxCalls == 2
\* number of optional arguments the host gives ticktick_create_task
MaxOptional == 2
\* number of tools/call requests of a session of different requests
MaxSession == 3
\* number of tools/call requests of a run in which the host lists the tools
MaxListed == 1

\* ------------------------------------------------------- JavaScript values
Undefined == <<>>
Some(v) == <<v>>
IsDefined(x) == x # Undefined

\* x is an optional string; JavaScript truthiness of x
TruthyStr(x) == IsDefined(x) /\ x[1] # ""

\* `${x}` for an optional string x
Interpolate(x) == IF IsDefined(x) THEN x[1] ELSE "undefined"

\* obj.f for an argument object obj
Has(obj, f) == f \in DOMAIN obj
Get(obj, f) == IF Has(obj, f) THEN Some(obj[f]) ELSE Undefined

EmptyObject == <<>>

\* the object with the fields of a and, where a has none, those of b
Merge(a, b) == a @@ b

\* ------------------------------------------------------------ error codes
InvalidRequest == "InvalidRequest"
MethodNotFound == "MethodNotFound"
InternalError == "InternalError"

\* ------------------------------------------------------------- the tools
ToolTable ==
  "ticktick_get_projects" :>
    [handler |-> "getProjects", destructures |-> TRUE, required |-> {},
     derefs |-> {}, dates |-> {}, fail |-> "Failed to get projects",
     steps |-> <<[method |-> "GET", path |-> <<"/project">>, query |-> FALSE, data |-> <<>>]>>] @@
  "ticktick_create_project" :>
    [handler |-> "createProject", destructures |-> TRUE, required |-> {"name"},
     derefs |-> {}, dates |-> {}, fail |-> "Failed to create project",
     steps |-> <<[method |-> "POST", path |-> <<"/project">>, query |-> FALSE, data |-> <<"var", "projectData">>]>>] @@
  "ticktick_get_tasks" :>
    [handler |-> "getTasks", destructures |-> TRUE, required |-> {},
     derefs |-> {}, dates |-> {}, fail |-> "Failed to get tasks",
     steps |-> <<[method |-> "GET", path |-> <<"/task">>, query |-> TRUE, data |-> <<>>]>>] @@
  "ticktick_create_task" :>
    [handler |-> "createTask", destructures |-> TRUE, required |-> {"title"},
     derefs |-> {}, dates |-> {"due_date"}, fail |-> "Failed to create task",
     steps |-> <<[method |-> "POST", path |-> <<"/task">>, query |-> FALSE, data |-> <<"var", "taskData">>]>>] @@
  "ticktick_update_task" :>
    [handler |-> "updateTask", destructures |-> TRUE, required |-> {"task_id"},
     derefs |-> {}, dates |-> {"due_date"}, fail |-> "Failed to update task",
     steps |-> <<[method |-> "POST", path |-> <<"/task/", "${task_id}">>, query |-> FALSE, data |-> <<"var", "updateData">>]>>] @@
  "ticktick_delete_task" :>
    [handler |-> "deleteTask", destructures |-> TRUE, required |-> {"task_id"},
     derefs |-> {}, dates |-> {}, fail |-> "Failed to delete task",
     steps |-> <<[method |-> "DELETE", path |-> <<"/task/", "${task_id}">>, query |-> FALSE, data |-> <<>>]>>] @@
  "ticktick_complete_task" :>
    [handler |-> "completeTask", destructures |-> TRUE, required |-> {"task_id"},
     derefs |-> {}, dates |-> {}, fail |-> "Failed to complete task",
     steps |-> <<[method |-> "POST", path |-> <<"/task/", "${task_id}">>, query |-> FALSE, data |-> <<"lit", "{ status: 2 }">>]>>] @@
  "ticktick_get_task_details" :>
    [handler |-> "getTaskDetails", destructures |-> TRUE, required |-> {"task_id"},
     derefs |-> {}, dates |-> {}, fail |-> "Failed to get task details",
     steps |-> <<[method |-> "GET", path |-> <<"/task/", "${task_id}">>, query |-> FALSE, data |-> <<>>]>>] @@
  "ticktick_filter_tasks" :>
    [handler |-> "filterTasks", destructures |-> TRUE, required |-> {},
     derefs |-> {}, dates |-> {}, fail |-> "Failed to filter tasks",
     steps |-> <<[method |-> "GET", path |-> <<"/task">>, query |-> FALSE, data |-> <<>>]>>] @@
  "ticktick_convert_datetime_to_ticktick_format" :>
    [handler |-> "convertDatetimeToTicktickFormat", destructures |-> TRUE, required |-> {"datetime_string"},
     derefs |-> {}, dates |-> {"datetime_string"}, fail |-> "Failed to convert datetime",
     steps |-> <<>>] @@
  "ticktick_get_tags" :>
    [handler |-> "getTags", destructures |-> FALSE, required |-> {},
     derefs |-> {}, dates |-> {}, fail |-> "Failed to get tags",
     steps |-> <<[method |-> "GET", path |-> <<"/tag">>, query |-> FALSE, data |-> <<>>]>>] @@
  "ticktick_create_tag" :>
    [handler |-> "createTag", destructures |-> TRUE, required |-> {"name"},
     derefs |-> {}, dates |-> {}, fail |-> "Failed to create tag",
     steps |-> <<[method |-> "POST", path |-> <<"/tag">>, query |-> FALSE, data |-> <<"var", "tagData">>]>>] @@
  "ticktick_search_tasks" :>
    [handler |-> "searchTasks", destructures |-> TRUE, required |-> {"query"},
     derefs |-> {}, dates |-> {}, fail |-> "Failed to search tasks",
     steps |-> <<[method |-> "GET", path |-> <<"/search">>, query |-> TRUE, data |-> <<>>]>>] @@
  "ticktick_get_today_tasks" :>
    [handler |-> "getTodayTasks", destructures |-> TRUE, required |-> {},
     derefs |-> {}, dates |-> {}, fail |-> "Failed to get today's tasks",
     steps |-> <<[method |-> "GET", path |-> <<"/task">>, query |-> TRUE, data |-> <<>>]>>] @@
  "ticktick_get_overdue_tasks" :>
    [handler |-> "getOverdueTasks", destructures |-> TRUE, required |-> {},
     derefs |-> {}, dates |-> {}, fail |-> "Failed to get overdue tasks",
     steps |-> <<[method |-> "GET", path |-> <<"/task">>, query |-> TRUE, data |-> <<>>]>>] @@
  "ticktick_get_upcoming_tasks" :>
    [handler |-> "getUpcomingTasks", destructures |-> TRUE, required |-> {},
     derefs |-> {}, dates |-> {}, fail |-> "Failed to get upcoming tasks",
     steps |-> <<[method |-> "GET", path |-> <<"/task">>, query |-> TRUE, data |-> <<>>]>>] @@
  "ticktick_add_tag_to_task" :>
    [handler |-> "addTagToTask", destructures |-> TRUE, required |-> {"task_id", "tag_name"},
     derefs |-> {}, dates |-> {}, fail |-> "Failed to add tag to task",
     steps |-> <<[method |-> "GET", path |-> <<"/task/", "${task_id}">>, query |-> FALSE, data |-> <<>>],
                 [method |-> "PUT", path |-> <<"/task/", "${task_id}">>, query |-> FALSE, data |-> <<"lit", "{ ...task, tags: currentTags }">>]>>] @@
  "ticktick_get_user_profile" :>
    [handler |-> "getUserProfile", destructures |-> FALSE, required |-> {},
     derefs |-> {}, dates |-> {}, fail |-> "Failed to get user profile",
     steps |-> <<[method |-> "GET", path |-> <<"/user/profile">>, query |-> FALSE, data |-> <<>>]>>] @@
  "ticktick_get_habits" :>
    [handler |-> "getHabits", destructures |-> TRUE, required |-> {},
     derefs |-> {}, dates |-> {}, fail |-> "Failed to get habits",
     steps |-> <<[method |-> "GET", path |-> <<"/habit">>, query |-> FALSE, data |-> <<>>]>>] @@
  "ticktick_create_habit" :>
    [handler |-> "createHabit", destructures |-> TRUE, required |-> {"name"},
     derefs |-> {}, dates |-> {}, fail |-> "Failed to create habit",
     steps |-> <<[method |-> "POST", path |-> <<"/habit">>, query |-> FALSE, data |-> <<"var", "habitData">>]>>] @@
  "ticktick_update_habit" :>
    [handler |-> "updateHabit", destructures |-> TRUE, required |-> {"habit_id"},
     derefs |-> {}, dates |-> {}, fail |-> "Failed to update habit",
     steps |-> <<[method |-> "GET", path |-> <<"/habit/", "${habit_id}">>, query |-> FALSE, data |-> <<>>],
                 [method |-> "PUT", path |-> <<"/habit/", "${habit_id}">>, query |-> FALSE, data |-> <<"var", "updateData">>]>>] @@
  "ticktick_delete_habit" :>
    [handler |-> "deleteHabit", destructures |-> TRUE, required |-> {"habit_id"},
     derefs |-> {}, dates |-> {}, fail |-> "Failed to delete habit",
     steps |-> <<[method |-> "DELETE", path |-> <<"/habit/", "${habit_id}">>, query |-> FALSE, data |-> <<>>]>>] @@
  "ticktick_checkin_habit" :>
    [handler |-> "checkinHabit", destructures |-> TRUE, required |-> {"habit_id"},
     derefs |-> {}, dates |-> {}, fail |-> "Failed to check in habit",
     steps |-> <<[method |-> "POST", path |-> <<"/habit/checkin">>, query |-> FALSE, data |-> <<"var", "checkinData">>]>>] @@
  "ticktick_get_habit_history" :>
    [handler |-> "getHabitHistory", destructures |-> TRUE, required |-> {"habit_id"},
     derefs |-> {}, dates |-> {}, fail |-> "Failed to get habit history",
     steps |-> <<[method |-> "GET", path |-> <<"/habit/", "${habit_id}", "/history">>, query |-> TRUE, data |-> <<>>]>>] @@
  "ticktick_get_habit_stats" :>
    [handler |-> "getHabitStats", destructures |-> TRUE, required |-> {"habit_id"},
     derefs |-> {}, dates |-> {}, fail |-> "Failed to get habit stats",
     steps |-> <<[method |-> "GET", path |-> <<"/habit/", "${habit_id}", "/stats">>, query |-> FALSE, data |-> <<>>]>>] @@
  "ticktick_pause_habit" :>
    [handler |-> "pauseHabit", destructures |-> TRUE, required |-> {"habit_id"},
     derefs |-> {}, dates |-> {}, fail |-> "Failed to pause habit",
     steps |-> <<[method |-> "PUT", path |-> <<"/habit/", "${habit_id}">>, query |-> FALSE, data |-> <<"var", "pauseData">>]>>] @@
  "ticktick_resume_habit" :>
    [handler |-> "resumeHabit", destructures |-> TRUE, required |-> {"habit_id"},
     derefs |-> {}, dates |-> {}, fail |-> "Failed to resume habit",
     steps |-> <<[method |-> "PUT", path |-> <<"/habit/", "${habit_id}">>, query |-> FALSE, data |-> <<"var", "resumeData">>]>>] @@
  "ticktick_get_habit_streaks" :>
    [handler |-> "getHabitStreaks", destructures |-> TRUE, required |-> {"habit_id"},
     derefs |-> {}, dates |-> {}, fail |-> "Failed to get habit streaks",
     steps |-> <<[method |-> "GET", path |-> <<"/habit/", "${habit_id}", "/streaks">>, query |-> FALSE, data |-> <<>>]>>] @@
  "ticktick_bulk_checkin_habits" :>
    [handler |-> "bulkCheckinHabits", destructures |-> TRUE, required |-> {"habit_ids"},
     derefs |-> {}, dates |-> {}, fail |-> "Failed to bulk check-in habits",
     steps |-> <<[method |-> "POST", path |-> <<"/habit/bulk-checkin">>, query |-> FALSE, data |-> <<"var", "bulkData">>]>>] @@
  "ticktick_get_habit_calendar" :>
    [handler |-> "getHabitCalendar", destructures |-> TRUE, required |-> {"habit_id"},
     derefs |-> {}, dates |-> {}, fail |-> "Failed to get habit calendar",
     steps |-> <<[method |-> "GET", path |-> <<"/habit/", "${habit_id}", "/calendar">>, query |-> TRUE, data |-> <<>>]>>] @@
  "ticktick_set_habit_goal" :>
    [handler |-> "setHabitGoal", destructures |-> TRUE, required |-> {"habit_id", "target_count"},
     derefs |-> {}, dates |-> {}, fail |-> "Failed to set habit goal",
     steps |-> <<[method |-> "POST", path |-> <<"/habit/goal">>, query |-> FALSE, data |-> <<"var", "goalData">>]>>] @@
  "ticktick_get_habits_summary" :>
    [handler |-> "getHabitsSummary", destructures |-> TRUE, required |-> {},
     derefs |-> {}, dates |-> {}, fail |-> "Failed to get habits summary",
     steps |-> <<[method |-> "GET", path |-> <<"/habit/summary">>, query |-> TRUE, data |-> <<>>]>>] @@
  "ticktick_export_habit_data" :>
    [handler |-> "exportHabitData", destructures |-> TRUE, required |-> {},
     derefs |-> {}, dates |-> {}, fail |-> "Failed to export habit data",
     steps |-> <<[method |-> "GET", path |-> <<"/habit/export">>, query |-> TRUE, data |-> <<>>]>>] @@
  "ticktick_update_tag" :>
    [handler |-> "updateTag", destructures |-> TRUE, required |-> {"tag_id"},
     derefs |-> {}, dates |-> {}, fail |-> "Failed to update tag",
     steps |-> <<[method |-> "GET", path |-> <<"/tag/", "${tag_id}">>, query |-> FALSE, data |-> <<>>],
                 [method |-> "PUT", path |-> <<"/tag/", "${tag_id}">>, query |-> FALSE, data |-> <<"var", "updateData">>]>>] @@
  "ticktick_delete_tag" :>
    [handler |-> "deleteTag", destructures |-> TRUE, required |-> {"tag_id"},
     derefs |-> {}, dates |-> {}, fail |-> "Failed to delete tag",
     steps |-> <<[method |-> "DELETE", path |-> <<"/tag/", "${tag_id}">>, query |-> FALSE, data |-> <<>>]>>] @@
  "ticktick_remove_tag_from_task" :>
    [handler |-> "removeTagFromTask", destructures |-> TRUE, required |-> {"task_id", "tag_name"},
     derefs |-> {}, dates |-> {}, fail |-> "Failed to remove tag from task",
     steps |-> <<[method |-> "GET", path |-> <<"/task/", "${task_id}">>, query |-> FALSE, data |-> <<>>],
                 [method |-> "PUT", path |-> <<"/task/", "${task_id}">>, query |-> FALSE, data |-> <<"lit", "{ ...task, tags: updatedTags }">>]>>] @@
  "ticktick_get_tasks_by_tag" :>
    [handler |-> "getTasksByTag", destructures |-> TRUE, required |-> {"tag_name"},
     derefs |-> {}, dates |-> {}, fail |-> "Failed to get tasks by tag",
     steps |-> <<[method |-> "GET", path |-> <<"/task">>, query |-> TRUE, data |-> <<>>]>>] @@
  "ticktick_get_tag_usage_stats" :>
    [handler |-> "getTagUsageStats", destructures |-> TRUE, required |-> {"tag_id"},
     derefs |-> {}, dates |-> {}, fail |-> "Failed to get tag usage stats",
     steps |-> <<[method |-> "GET", path |-> <<"/tag/", "${tag_id}", "/stats">>, query |-> FALSE, data |-> <<>>]>>] @@
  "ticktick_merge_tags" :>
    [handler |-> "mergeTags", destructures |-> TRUE, required |-> {"source_tag_id", "target_tag_id"},
     derefs |-> {}, dates |-> {}, fail |-> "Failed to merge tags",
     steps |-> <<[method |-> "POST", path |-> <<"/tag/merge">>, query |-> FALSE, data |-> <<"var", "mergeData">>]>>] @@
  "ticktick_bulk_tag_operations" :>
    [handler |-> "bulkTagOperations", destructures |-> TRUE, required |-> {"operation", "task_ids", "tag_names"},
     derefs |-> {}, dates |-> {}, fail |-> "Failed to perform bulk tag operations",
     steps |-> <<[method |-> "POST", path |-> <<"/tag/bulk">>, query |-> FALSE, data |-> <<"var", "bulkData">>]>>] @@
  "ticktick_start_focus_session" :>
    [handler |-> "startFocusSession", destructures |-> TRUE, required |-> {},
     derefs |-> {}, dates |-> {}, fail |-> "Failed to start focus session",
     steps |-> <<[method |-> "POST", path |-> <<"/focus/start">>, query |-> FALSE, data |-> <<"var", "sessionData">>]>>] @@
  "ticktick_stop_focus_session" :>
    [handler |-> "stopFocusSession", destructures |-> TRUE, required |-> {"session_id"},
     derefs |-> {}, dates |-> {}, fail |-> "Failed to stop focus session",
     steps |-> <<[method |-> "POST", path |-> <<"/focus/stop">>, query |-> FALSE, data |-> <<"var", "stopData">>]>>] @@
  "ticktick_pause_focus_session" :>
    [handler |-> "pauseFocusSession", destructures |-> TRUE, required |-> {"session_id"},
     derefs |-> {}, dates |-> {}, fail |-> "Failed to pause focus session",
     steps |-> <<[method |-> "POST", path |-> <<"/focus/pause">>, query |-> FALSE, data |-> <<"var", "pauseData">>]>>] @@
  "ticktick_resume_focus_session" :>
    [handler |-> "resumeFocusSession", destructures |-> TRUE, required |-> {"session_id"},
     derefs |-> {}, dates |-> {}, fail |-> "Failed to resume focus session",
     steps |-> <<[method |-> "POST", path |-> <<"/focus/resume">>, query |-> FALSE, data |-> <<"var", "resumeData">>]>>] @@
  "ticktick_get_focus_stats" :>
    [handler |-> "getFocusStats", destructures |-> TRUE, required |-> {},
     derefs |-> {}, dates |-> {}, fail |-> "Failed to get focus stats",
     steps |-> <<[method |-> "GET", path |-> <<"/focus/stats">>, query |-> TRUE, data |-> <<>>]>>] @@
  "ticktick_set_task_estimate" :>
    [handler |-> "setTaskEstimate", destructures |-> TRUE, required |-> {"task_id", "estimated_minutes"},
     derefs |-> {}, dates |-> {}, fail |-> "Failed to set task estimate",
     steps |-> <<[method |-> "POST", path |-> <<"/task/estimate">>, query |-> FALSE, data |-> <<"var", "estimateData">>]>>] @@
  "ticktick_get_daily_focus_summary" :>
    [handler |-> "getDailyFocusSummary", destructures |-> TRUE, required |-> {},
     derefs |-> {}, dates |-> {}, fail |-> "Failed to get daily focus summary",
     steps |-> <<[method |-> "GET", path |-> <<"/focus/daily">>, query |-> TRUE, data |-> <<>>]>>] @@
  "ticktick_get_focus_history" :>
    [handler |-> "getFocusHistory", destructures |-> TRUE, required |-> {},
     derefs |-> {}, dates |-> {}, fail |-> "Failed to get focus history",
     steps |-> <<[method |-> "GET", path |-> <<"/focus/history">>, query |-> TRUE, data |-> <<>>]>>] @@
  "ticktick_set_focus_goals" :>
    [handler |-> "setFocusGoals", destructures |-> TRUE, required |-> {"target_minutes"},
     derefs |-> {}, dates |-> {}, fail |-> "Failed to set focus goals",
     steps |-> <<[method |-> "POST", path |-> <<"/focus/goals">>, query |-> FALSE, data |-> <<"var", "goalData">>]>>] @@
  "ticktick_get_productivity_insights" :>
    [handler |-> "getProductivityInsights", destructures |-> TRUE, required |-> {},
     derefs |-> {}, dates |-> {}, fail |-> "Failed to get productivity insights",
     steps |-> <<[method |-> "GET", path |-> <<"/analytics/productivity">>, query |-> TRUE, data |-> <<>>]>>] @@
  "ticktick_get_project_folders" :>
    [handler |-> "getProjectFolders", destructures |-> FALSE, required |-> {},
     derefs |-> {}, dates |-> {}, fail |-> "Failed to get project folders",
     steps |-> <<[method |-> "GET", path |-> <<"/project/folder">>, query |-> FALSE, data |-> <<>>]>>] @@
  "ticktick_create_project_folder" :>
    [handler |-> "createProjectFolder", destructures |-> TRUE, required |-> {"name"},
     derefs |-> {}, dates |-> {}, fail |-> "Failed to create project folder",
     steps |-> <<[method |-> "POST", path |-> <<"/project/folder">>, query |-> FALSE, data |-> <<"var", "folderData">>]>>] @@
  "ticktick_move_project_to_folder" :>
    [handler |-> "moveProjectToFolder", destructures |-> TRUE, required |-> {"project_id", "folder_id"},
     derefs |-> {}, dates |-> {}, fail |-> "Failed to move project to folder",
     steps |-> <<[method |-> "PUT", path |-> <<"/project/", "${project_id}", "/move">>, query |-> FALSE, data |-> <<"var", "moveData">>]>>] @@
  "ticktick_archive_project" :>
    [handler |-> "archiveProject", destructures |-> TRUE, required |-> {"project_id"},
     derefs |-> {}, dates |-> {}, fail |-> "Failed to archive project",
     steps |-> <<[method |-> "PUT", path |-> <<"/project/", "${project_id}", "/archive">>, query |-> FALSE, data |-> <<>>]>>] @@
  "ticktick_unarchive_project" :>
    [handler |-> "unarchiveProject", destructures |-> TRUE, required |-> {"project_id"},
     derefs |-> {}, dates |-> {}, fail |-> "Failed to unarchive project",
     steps |-> <<[method |-> "PUT", path |-> <<"/project/", "${project_id}", "/unarchive">>, query |-> FALSE, data |-> <<>>]>>] @@
  "ticktick_duplicate_project" :>
    [handler |-> "duplicateProject", destructures |-> TRUE, required |-> {"project_id", "new_name"},
     derefs |-> {}, dates |-> {}, fail |-> "Failed to duplicate project",
     steps |-> <<[method |-> "POST", path |-> <<"/project/", "${project_id}", "/duplicate">>, query |-> FALSE, data |-> <<"var", "duplicateData">>]>>] @@
  "ticktick_get_project_stats" :>
    [handler |-> "getProjectStats", destructures |-> TRUE, required |-> {"project_id"},
     derefs |-> {}, dates |-> {}, fail |-> "Failed to get project stats",
     steps |-> <<[method |-> "GET", path |-> <<"/project/", "${project_id}", "/stats">>, query |-> FALSE, data |-> <<>>]>>] @@
  "ticktick_set_project_color" :>
    [handler |-> "setProjectColor", destructures |-> TRUE, required |-> {"project_id", "color"},
     derefs |-> {}, dates |-> {}, fail |-> "Failed to set project color",
     steps |-> <<[method |-> "PUT", path |-> <<"/project/", "${project_id}">>, query |-> FALSE, data |-> <<"var", "updateData">>]>>] @@
  "ticktick_reorder_projects" :>
    [handler |-> "reorderProjects", destructures |-> TRUE, required |-> {"project_orders"},
     derefs |-> {"project_orders"}, dates |-> {}, fail |-> "Failed to reorder projects",
     steps |-> <<[method |-> "PUT", path |-> <<"/project/reorder">>, query |-> FALSE, data |-> <<"var", "reorderData">>]>>] @@
  "ticktick_get_project_templates" :>
    [handler |-> "getProjectTemplates", destructures |-> FALSE, required |-> {},
     derefs |-> {}, dates |-> {}, fail |-> "Failed to get project templates",
     steps |-> <<[method |-> "GET", path |-> <<"/project/templates">>, query |-> FALSE, data |-> <<>>]>>] @@
  "ticktick_create_project_from_template" :>
    [handler |-> "createProjectFromTemplate", destructures |-> TRUE, required |-> {"template_id", "project_name"},
     derefs |-> {}, dates |-> {}, fail |-> "Failed to create project from template",
     steps |-> <<[method |-> "POST", path |-> <<"/project/from-template">>, query |-> FALSE, data |-> <<"var", "projectData">>]>>] @@
  "ticktick_export_project" :>
    [handler |-> "exportProject", destructures |-> TRUE, required |-> {"project_id"},
     derefs |-> {}, dates |-> {}, fail |-> "Failed to export project",
     steps |-> <<[method |-> "POST", path |-> <<"/project/", "${project_id}", "/export">>, query |-> FALSE, data |-> <<"var", "exportData">>]>>] @@
  "ticktick_share_project" :>
    [handler |-> "shareProject", destructures |-> TRUE, required |-> {"project_id", "emails"},
     derefs |-> {}, dates |-> {}, fail |-> "Failed to share project",
     steps |-> <<[method |-> "POST", path |-> <<"/project/", "${project_id}", "/share">>, query |-> FALSE, data |-> <<"var", "shareData">>]>>] @@
  "ticktick_get_shared_projects" :>
    [handler |-> "getSharedProjects", destructures |-> TRUE, required |-> {},
     derefs |-> {}, dates |-> {}, fail |-> "Failed to get shared projects",
     steps |-> <<[method |-> "GET", path |-> <<"/project/shared">>, query |-> TRUE, data |-> <<>>]>>] @@
  "ticktick_invite_collaborator" :>
    [handler |-> "inviteCollaborator", destructures |-> TRUE, required |-> {"project_id", "email"},
     derefs |-> {}, dates |-> {}, fail |-> "Failed to invite collaborator",
     steps |-> <<[method |-> "POST", path |-> <<"/project/", "${project_id}", "/invite">>, query |-> FALSE, data |-> <<"var", "inviteData">>]>>] @@
  "ticktick_remove_collaborator" :>
    [handler |-> "removeCollaborator", destructures |-> TRUE, required |-> {"project_id", "user_id"},
     derefs |-> {}, dates |-> {}, fail |-> "Failed to remove collaborator",
     steps |-> <<[method |-> "DELETE", path |-> <<"/project/", "${project_id}", "/collaborator/", "${user_id}">>, query |-> FALSE, data |-> <<>>]>>] @@
  "ticktick_assign_task" :>
    [handler |-> "assignTask", destructures |-> TRUE, required |-> {"task_id", "assignee_id"},
     derefs |-> {}, dates |-> {}, fail |-> "Failed to assign task",
     steps |-> <<[method |-> "PUT", path |-> <<"/task/", "${task_id}", "/assign">>, query |-> FALSE, data |-> <<"var", "assignmentData">>]>>] @@
  "ticktick_get_task_assignees" :>
    [handler |-> "getTaskAssignees", destructures |-> TRUE, required |-> {"task_id"},
     derefs |-> {}, dates |-> {}, fail |-> "Failed to get task assignees",
     steps |-> <<[method |-> "GET", path |-> <<"/task/", "${task_id}", "/assignees">>, query |-> FALSE, data |-> <<>>]>>] @@
  "ticktick_add_task_comment" :>
    [handler |-> "addTaskComment", destructures |-> TRUE, required |-> {"task_id", "comment"},
     derefs |-> {}, dates |-> {}, fail |-> "Failed to add task comment",
     steps |-> <<[method |-> "POST", path |-> <<"/task/", "${task_id}", "/comment">>, query |-> FALSE, data |-> <<"var", "commentData">>]>>] @@
  "ticktick_get_team_activity" :>
    [handler |-> "getTeamActivity", destructures |-> TRUE, required |-> {"project_id"},
     derefs |-> {}, dates |-> {}, fail |-> "Failed to get team activity",
     steps |-> <<[method |-> "GET", path |-> <<"/project/", "${project_id}", "/activity">>, query |-> TRUE, data |-> <<>>]>>] @@
  "ticktick_set_project_permissions" :>
    [handler |-> "setProjectPermissions", destructures |-> TRUE, required |-> {"project_id", "permissions"},
     derefs |-> {}, dates |-> {}, fail |-> "Failed to set project permissions",
     steps |-> <<[method |-> "PUT", path |-> <<"/project/", "${project_id}", "/permissions">>, query |-> FALSE, data |-> <<"var", "permissionData">>]>>] @@
  "ticktick_get_collaboration_stats" :>
    [handler |-> "getCollaborationStats", destructures |-> TRUE, required |-> {"project_id"},
     derefs |-> {}, dates |-> {}, fail |-> "Failed to get collaboration stats",
     steps |-> <<[method |-> "GET", path |-> <<"/project/", "${project_id}", "/collaboration-stats">>, query |-> TRUE, data |-> <<>>]>>] @@
  "ticktick_bulk_assign_tasks" :>
    [handler |-> "bulkAssignTasks", destructures |-> TRUE, required |-> {"assignments"},
     derefs |-> {"assignments"}, dates |-> {}, fail |-> "Failed to bulk assign tasks",
     steps |-> <<[method |-> "POST", path |-> <<"/task/bulk-assign">>, query |-> FALSE, data |-> <<"var", "assignmentData">>]>>] @@
  "ticktick_export_team_report" :>
    [handler |-> "exportTeamReport", destructures |-> TRUE, required |-> {"project_id"},
     derefs |-> {}, dates |-> {}, fail |-> "Failed to export team report",
     steps |-> <<[method |-> "POST", path |-> <<"/project/", "${project_id}", "/export/team-report">>, query |-> FALSE, data |-> <<"var", "exportData">>]>>] @@
  "ticktick_get_calendar_events" :>
    [handler |-> "getCalendarEvents", destructures |-> TRUE, required |-> {},
     derefs |-> {}, dates |-> {}, fail |-> "Failed to get calendar events",
     steps |-> <<[method |-> "GET", path |-> <<"/calendar/events">>, query |-> TRUE, data |-> <<>>]>>] @@
  "ticktick_create_calendar_event" :>
    [handler |-> "createCalendarEvent", destructures |-> TRUE, required |-> {"title", "start_time", "end_time"},
     derefs |-> {}, dates |-> {}, fail |-> "Failed to create calendar event",
     steps |-> <<[method |-> "POST", path |-> <<"/calendar/event">>, query |-> FALSE, data |-> <<"var", "eventData">>]>>] @@
  "ticktick_sync_with_google_calendar" :>
    [handler |-> "syncWithGoogleCalendar", destructures |-> TRUE, required |-> {"google_calendar_id"},
     derefs |-> {}, dates |-> {}, fail |-> "Failed to sync with Google Calendar",
     steps |-> <<[method |-> "POST", path |-> <<"/calendar/sync/google">>, query |-> FALSE, data |-> <<"var", "syncData">>]>>] @@
  "ticktick_sync_with_outlook" :>
    [handler |-> "syncWithOutlook", destructures |-> TRUE, required |-> {"outlook_calendar_id"},
     derefs |-> {}, dates |-> {}, fail |-> "Failed to sync with Outlook",
     steps |-> <<[method |-> "POST", path |-> <<"/calendar/sync/outlook">>, query |-> FALSE, data |-> <<"var", "syncData">>]>>] @@
  "ticktick_get_calendar_view" :>
    [handler |-> "getCalendarView", destructures |-> TRUE, required |-> {},
     derefs |-> {}, dates |-> {}, fail |-> "Failed to get calendar view",
     steps |-> <<[method |-> "GET", path |-> <<"/calendar/view">>, query |-> TRUE, data |-> <<>>]>>] @@
  "ticktick_convert_task_to_event" :>
    [handler |-> "convertTaskToEvent", destructures |-> TRUE, required |-> {"task_id"},
     derefs |-> {}, dates |-> {}, fail |-> "Failed to convert task to event",
     steps |-> <<[method |-> "POST", path |-> <<"/task/", "${task_id}", "/convert-to-event">>, query |-> FALSE, data |-> <<"var", "conversionData">>]>>] @@
  "ticktick_get_schedule_conflicts" :>
    [handler |-> "getScheduleConflicts", destructures |-> TRUE, required |-> {},
     derefs |-> {}, dates |-> {}, fail |-> "Failed to get schedule conflicts",
     steps |-> <<[method |-> "GET", path |-> <<"/calendar/conflicts">>, query |-> TRUE, data |-> <<>>]>>] @@
  "ticktick_bulk_calendar_import" :>
    [handler |-> "bulkCalendarImport", destructures |-> TRUE, required |-> {"calendar_data"},
     derefs |-> {}, dates |-> {}, fail |-> "Failed to bulk import calendar",
     steps |-> <<[method |-> "POST", path |-> <<"/calendar/bulk-import">>, query |-> FALSE, data |-> <<"var", "importData">>]>>] @@
  "ticktick_get_task_notes" :>
    [handler |-> "getTaskNotes", destructures |-> TRUE, required |-> {"task_id"},
     derefs |-> {}, dates |-> {}, fail |-> "Failed to get task notes",
     steps |-> <<[method |-> "GET", path |-> <<"/task/", "${task_id}", "/notes">>, query |-> TRUE, data |-> <<>>]>>] @@
  "ticktick_add_task_note" :>
    [handler |-> "addTaskNote", destructures |-> TRUE, required |-> {"task_id", "note_content"},
     derefs |-> {}, dates |-> {}, fail |-> "Failed to add task note",
     steps |-> <<[method |-> "POST", path |-> <<"/task/", "${task_id}", "/note">>, query |-> FALSE, data |-> <<"var", "noteData">>]>>] @@
  "ticktick_update_task_note" :>
    [handler |-> "updateTaskNote", destructures |-> TRUE, required |-> {"task_id", "note_id", "new_content"},
     derefs |-> {}, dates |-> {}, fail |-> "Failed to update task note",
     steps |-> <<[method |-> "PUT", path |-> <<"/task/", "${task_id}", "/note/", "${note_id}">>, query |-> FALSE, data |-> <<"var", "updateData">>]>>] @@
  "ticktick_delete_task_note" :>
    [handler |-> "deleteTaskNote", destructures |-> TRUE, required |-> {"task_id", "note_id"},
     derefs |-> {}, dates |-> {}, fail |-> "Failed to delete task note",
     steps |-> <<[method |-> "GET", path |-> <<"/task/", "${task_id}", "/note/", "${note_id}">>, query |-> FALSE, data |-> <<>>],
                 [method |-> "DELETE", path |-> <<"/task/", "${task_id}", "/note/", "${note_id}">>, query |-> FALSE, data |-> <<>>]>>] @@
  "ticktick_upload_task_attachment" :>
    [handler |-> "uploadTaskAttachment", destructures |-> TRUE, required |-> {"task_id", "file_data", "file_name"},
     derefs |-> {}, dates |-> {}, fail |-> "Failed to upload task attachment",
     steps |-> <<[method |-> "POST", path |-> <<"/task/", "${task_id}", "/attachment">>, query |-> FALSE, data |-> <<"var", "attachmentData">>]>>] @@
  "ticktick_get_task_attachments" :>
    [handler |-> "getTaskAttachments", destructures |-> TRUE, required |-> {"task_id"},
     derefs |-> {}, dates |-> {}, fail |-> "Failed to get task attachments",
     steps |-> <<[method |-> "GET", path |-> <<"/task/", "${task_id}", "/attachments">>, query |-> TRUE, data |-> <<>>]>>] @@
  "ticktick_download_task_attachment" :>
    [handler |-> "downloadTaskAttachment", destructures |-> TRUE, required |-> {"task_id", "attachment_id"},
     derefs |-> {}, dates |-> {}, fail |-> "Failed to download task attachment",
     steps |-> <<[method |-> "GET", path |-> <<"/task/", "${task_id}", "/attachment/", "${attachment_id}", "/download">>, query |-> TRUE, data |-> <<>>]>>] @@
  "ticktick_delete_task_attachment" :>
    [handler |-> "deleteTaskAttachment", destructures |-> TRUE, required |-> {"task_id", "attachment_id"},
     derefs |-> {}, dates |-> {}, fail |-> "Failed to delete task attachment",
     steps |-> <<[method |-> "GET", path |-> <<"/task/", "${task_id}", "/attachment/", "${attachment_id}">>, query |-> FALSE, data |-> <<>>],
                 [method |-> "DELETE", path |-> <<"/task/", "${task_id}", "/attachment/", "${attachment_id}">>, query |-> FALSE, data |-> <<>>]>>] @@
  "ticktick_get_task_templates" :>
    [handler |-> "getTaskTemplates", destructures |-> TRUE, required |-> {},
     derefs |-> {}, dates |-> {}, fail |-> "Failed to get task templates",
     steps |-> <<[method |-> "GET", path |-> <<"/task/templates">>, query |-> TRUE, data |-> <<>>]>>] @@
  "ticktick_create_task_template" :>
    [handler |-> "createTaskTemplate", destructures |-> TRUE, required |-> {"template_name", "task_data"},
     derefs |-> {}, dates |-> {}, fail |-> "Failed to create task template",
     steps |-> <<[method |-> "POST", path |-> <<"/task/template">>, query |-> FALSE, data |-> <<"var", "templateData">>]>>] @@
  "ticktick_update_task_template" :>
    [handler |-> "updateTaskTemplate", destructures |-> TRUE, required |-> {"template_id"},
     derefs |-> {}, dates |-> {}, fail |-> "Failed to update task template",
     steps |-> <<[method |-> "PUT", path |-> <<"/task/template/", "${template_id}">>, query |-> FALSE, data |-> <<"var", "updateData">>]>>] @@
  "ticktick_delete_task_template" :>
    [handler |-> "deleteTaskTemplate", destructures |-> TRUE, required |-> {"template_id"},
     derefs |-> {}, dates |-> {}, fail |-> "Failed to delete task template",
     steps |-> <<[method |-> "GET", path |-> <<"/task/template/", "${template_id}">>, query |-> FALSE, data |-> <<>>],
                 [method |-> "DELETE", path |-> <<"/task/template/", "${template_id}">>, query |-> FALSE, data |-> <<>>]>>] @@
  "ticktick_create_task_from_template" :>
    [handler |-> "createTaskFromTemplate", destructures |-> TRUE, required |-> {"template_id"},
     derefs |-> {}, dates |-> {}, fail |-> "Failed to create task from template",
     steps |-> <<[method |-> "POST", path |-> <<"/task/from-template">>, query |-> FALSE, data |-> <<"var", "creationData">>]>>] @@
  "ticktick_set_recurring_task" :>
    [handler |-> "setRecurringTask", destructures |-> TRUE, required |-> {"task_id", "recurrence_pattern"},
     derefs |-> {}, dates |-> {}, fail |-> "Failed to set recurring task",
     steps |-> <<[method |-> "POST", path |-> <<"/task/", "${task_id}", "/recurrence">>, query |-> FALSE, data |-> <<"var", "recurrenceData">>]>>] @@
  "ticktick_get_recurring_tasks" :>
    [handler |-> "getRecurringTasks", destructures |-> TRUE, required |-> {},
     derefs |-> {}, dates |-> {}, fail |-> "Failed to get recurring tasks",
     steps |-> <<[method |-> "GET", path |-> <<"/task/recurring">>, query |-> TRUE, data |-> <<>>]>>] @@
  "ticktick_pause_recurring_task" :>
    [handler |-> "pauseRecurringTask", destructures |-> TRUE, required |-> {"task_id"},
     derefs |-> {}, dates |-> {}, fail |-> "Failed to pause recurring task",
     steps |-> <<[method |-> "PUT", path |-> <<"/task/", "${task_id}", "/recurrence/pause">>, query |-> FALSE, data |-> <<"var", "pauseData">>]>>] @@
  "ticktick_bulk_create_from_template" :>
    [handler |-> "bulkCreateFromTemplate", destructures |-> TRUE, required |-> {"template_id", "bulk_data"},
     derefs |-> {}, dates |-> {}, fail |-> "Failed to bulk create from template",
     steps |-> <<[method |-> "POST", path |-> <<"/task/bulk-from-template">>, query |-> FALSE, data |-> <<"var", "bulkCreationData">>]>>] @@
  "ticktick_get_productivity_report" :>
    [handler |-> "getProductivityReport", destructures |-> TRUE, required |-> {},
     derefs |-> {}, dates |-> {}, fail |-> "Failed to get productivity report",
     steps |-> <<[method |-> "GET", path |-> <<"/analytics/productivity">>, query |-> TRUE, data |-> <<>>]>>] @@
  "ticktick_get_completion_trends" :>
    [handler |-> "getCompletionTrends", destructures |-> TRUE, required |-> {},
     derefs |-> {}, dates |-> {}, fail |-> "Failed to get completion trends",
     steps |-> <<[method |-> "GET", path |-> <<"/analytics/trends">>, query |-> TRUE, data |-> <<>>]>>] @@
  "ticktick_get_time_tracking_report" :>
    [handler |-> "getTimeTrackingReport", destructures |-> TRUE, required |-> {},
     derefs |-> {}, dates |-> {}, fail |-> "Failed to get time tracking report",
     steps |-> <<[method |-> "GET", path |-> <<"/analytics/time-tracking">>, query |-> TRUE, data |-> <<>>]>>] @@
  "ticktick_get_goal_progress" :>
    [handler |-> "getGoalProgress", destructures |-> TRUE, required |-> {},
     derefs |-> {}, dates |-> {}, fail |-> "Failed to get goal progress",
     steps |-> <<[method |-> "GET", path |-> <<"/analytics/goals">>, query |-> TRUE, data |-> <<>>]>>] @@
  "ticktick_export_analytics_data" :>
    [handler |-> "exportAnalyticsData", destructures |-> TRUE, required |-> {"date_range"},
     derefs |-> {"date_range"}, dates |-> {}, fail |-> "Failed to export analytics data",
     steps |-> <<[method |-> "GET", path |-> <<"/analytics/export">>, query |-> TRUE, data |-> <<>>]>>] @@
  "ticktick_get_weekly_summary" :>
    [handler |-> "getWeeklySummary", destructures |-> TRUE, required |-> {},
     derefs |-> {}, dates |-> {}, fail |-> "Failed to get weekly summary",
     steps |-> <<[method |-> "GET", path |-> <<"/analytics/weekly-summary">>, query |-> TRUE, data |-> <<>>]>>] @@
  "ticktick_get_monthly_insights" :>
    [handler |-> "getMonthlyInsights", destructures |-> TRUE, required |-> {},
     derefs |-> {}, dates |-> {}, fail |-> "Failed to get monthly insights",
     steps |-> <<[method |-> "GET", path |-> <<"/analytics/monthly-insights">>, query |-> TRUE, data |-> <<>>]>>] @@
  "ticktick_update_user_settings" :>
    [handler |-> "updateUserSettings", destructures |-> TRUE, required |-> {"settings"},
     derefs |-> {}, dates |-> {}, fail |-> "Failed to update user settings",
     steps |-> <<[method |-> "PUT", path |-> <<"/user/settings">>, query |-> FALSE, data |-> <<"arg", "settings">>]>>] @@
  "ticktick_get_notification_settings" :>
    [handler |-> "getNotificationSettings", destructures |-> TRUE, required |-> {},
     derefs |-> {}, dates |-> {}, fail |-> "Failed to get notification settings",
     steps |-> <<[method |-> "GET", path |-> <<"/user/notifications">>, query |-> TRUE, data |-> <<>>]>>] @@
  "ticktick_update_notification_settings" :>
    [handler |-> "updateNotificationSettings", destructures |-> TRUE, required |-> {"notifications"},
     derefs |-> {}, dates |-> {}, fail |-> "Failed to update notification settings",
     steps |-> <<[method |-> "PUT", path |-> <<"/user/notifications">>, query |-> FALSE, data |-> <<"arg", "notifications">>]>>] @@
  "ticktick_get_sync_settings" :>
    [handler |-> "getSyncSettings", destructures |-> TRUE, required |-> {},
     derefs |-> {}, dates |-> {}, fail |-> "Failed to get sync settings",
     steps |-> <<[method |-> "GET", path |-> <<"/user/sync">>, query |-> TRUE, data |-> <<>>]>>] @@
  "ticktick_update_sync_settings" :>
    [handler |-> "updateSyncSettings", destructures |-> TRUE, required |-> {"sync_settings"},
     derefs |-> {}, dates |-> {}, fail |-> "Failed to update sync settings",
     steps |-> <<[method |-> "PUT", path |-> <<"/user/sync">>, query |-> FALSE, data |-> <<"arg", "sync_settings">>]>>] @@
  "ticktick_reset_user_data" :>
    [handler |-> "resetUserData", destructures |-> TRUE, required |-> {"reset_type"},
     derefs |-> {}, dates |-> {}, fail |-> "Failed to reset user data",
     steps |-> <<[method |-> "POST", path |-> <<"/user/reset">>, query |-> FALSE, data |-> <<"var", "resetData">>]>>]
\* the names of the tools array of the ListToolsRequestSchema handler, in order
ListedTools ==
  <<"ticktick_get_projects", "ticktick_create_project", "ticktick_get_tasks",
    "ticktick_create_task", "ticktick_update_task", "ticktick_delete_task",
    "ticktick_complete_task", "ticktick_get_task_details",
    "ticktick_filter_tasks", "ticktick_convert_datetime_to_ticktick_format",
    "ticktick_get_tags", "ticktick_create_tag", "ticktick_search_tasks",
    "ticktick_get_today_tasks", "ticktick_get_overdue_tasks",
    "ticktick_get_upcoming_tasks", "ticktick_add_tag_to_task",
    "ticktick_get_user_profile", "ticktick_get_habits",
    "ticktick_create_habit", "ticktick_update_habit",
    "ticktick_delete_habit", "ticktick_checkin_habit",
    "ticktick_get_habit_history", "ticktick_get_habit_stats",
    "ticktick_pause_habit", "ticktick_resume_habit",
    "ticktick_get_habit_streaks", "ticktick_bulk_checkin_habits",
    "ticktick_get_habit_calendar", "ticktick_set_habit_goal",
    "ticktick_get_habits_summary", "ticktick_export_habit_data",
    "ticktick_update_tag", "ticktick_delete_tag",
    "ticktick_remove_tag_from_task", "ticktick_get_tasks_by_tag",
    "ticktick_get_tag_usage_stats", "ticktick_merge_tags",
    "ticktick_bulk_tag_operations", "ticktick_start_focus_session",
    "ticktick_stop_focus_session", "ticktick_pause_focus_session",
    "ticktick_resume_focus_session", "ticktick_get_focus_stats",
    "ticktick_set_task_estimate", "ticktick_get_daily_focus_summary",
    "ticktick_get_focus_history", "ticktick_set_focus_goals",
    "ticktick_get_productivity_insights", "ticktick_get_project_folders",
    "ticktick_create_project_folder", "ticktick_move_project_to_folder",
    "ticktick_archive_project", "ticktick_unarchive_project",
    "ticktick_duplicate_project", "ticktick_get_project_stats",
    "ticktick_set_project_color", "ticktick_reorder_projects",
    "ticktick_get_project_templates",
    "ticktick_create_project_from_template", "ticktick_export_project",
    "ticktick_share_project", "ticktick_get_shared_projects",
    "ticktick_invite_collaborator", "ticktick_remove_collaborator",
    "ticktick_assign_task", "ticktick_get_task_assignees",
    "ticktick_add_task_comment", "ticktick_get_team_activity",
    "ticktick_set_project_permissions", "ticktick_get_collaboration_stats",
    "ticktick_bulk_assign_tasks", "ticktick_export_team_report",
    "ticktick_get_calendar_events", "ticktick_create_calendar_event",
    "ticktick_sync_with_google_calendar", "ticktick_sync_with_outlook",
    "ticktick_get_calendar_view", "ticktick_convert_task_to_event",
    "ticktick_get_schedule_conflicts", "ticktick_bulk_calendar_import",
    "ticktick_get_task_notes", "ticktick_add_task_note",
    "ticktick_update_task_note", "ticktick_delete_task_note",
    "ticktick_upload_task_attachment", "ticktick_get_task_attachments",
    "ticktick_download_task_attachment", "ticktick_delete_task_attachment",
    "ticktick_get_task_templates", "ticktick_create_task_template",
    "ticktick_update_task_template", "ticktick_delete_task_template",
    "ticktick_create_task_from_template", "ticktick_set_recurring_task",
    "ticktick_get_recurring_tasks", "ticktick_pause_recurring_task",
    "ticktick_bulk_create_from_template", "ticktick_get_productivity_report",
    "ticktick_get_completion_trends", "ticktick_get_time_tracking_report",
    "ticktick_get_goal_progress", "ticktick_export_analytics_data",
    "ticktick_get_weekly_summary", "ticktick_get_monthly_insights",
    "ticktick_update_user_settings", "ticktick_get_notification_settings",
    "ticktick_update_notification_settings", "ticktick_get_sync_settings",
    "ticktick_update_sync_settings", "ticktick_reset_user_data">>

\* the cases of the dispatch switch
Registered == DOMAIN ToolTable

\* names the host may send that no case of the switch matches
UnknownNames == {"ticktick_get_cached_tasks", "ticktick_register_task_id",
                 "ticktick_import_from_csv", "ticktick_check_in_habit"}

ToolNames == Registered \cup UnknownNames

\* the `${...}` substitutions of the endpoint templates and the argument of each
ParamField ==
  "${task_id}" :> "task_id" @@ "${habit_id}" :> "habit_id" @@
  "${tag_id}" :> "tag_id" @@ "${project_id}" :> "project_id" @@
  "${note_id}" :> "note_id" @@ "${attachment_id}" :> "attachment_id" @@
  "${template_id}" :> "template_id" @@ "${user_id}" :> "user_id"

\* the 'required' list of the tool's inputSchema
Required(name) == ToolTable[name].required

\* ------------------------------------------------------------------ dates
ValidDates == {"2025-01-15T10:00:00"}
InvalidDates == {"next tuesday"}

\* new Date(s) is a valid date
IsValidDate(s) == s \in ValidDates

\* new Date(s).toISOString() for a valid s
toISOString(s) == CASE s = "2025-01-15T10:00:00" -> "2025-01-15T10:00:00.000Z"

\* ---------------------------------------------------------- configuration
\* values of the environment variables TICKTICK_ACCESS_TOKEN, TICKTICK_TOKEN
AccessTokenValues == {Undefined, Some(""), Some("access-token")}
TokenValues == {Undefined, Some(""), Some("legacy-token")}

\* -------------------------------------------------------- upstream replies
StatusText(status) ==
  CASE status = 200 -> "OK"
    [] status = 404 -> "Not Found"
    [] status = 500 -> "Internal Server Error"

\* String(status)
StatusString(status) ==
  CASE status = 200 -> "200"
    [] status = 404 -> "404"
    [] status = 500 -> "500"

\* response.ok
ResponseOk(resp) == resp.status \in 200..299

\* what the upstream API can answer: a status, and whether the body is JSON
Responses ==
  { [status |-> 200, json |-> TRUE, text |-> "{...}"],
    [status |-> 200, json |-> FALSE, text |-> ""],
    [status |-> 404, json |-> TRUE, text |-> "{\"error\":\"not found\"}"],
    [status |-> 500, json |-> FALSE, text |-> "oops"] }

\* the rejection of fetch on a network failure
FetchFailed == [message |-> <<"fetch failed">>]

\* ------------------------------------------------------- response bodies
\* what response.json() returns: an object, an array, or (for the endpoints
\* whose answer is not spelled out) a body that has every field the handler
\* reads
Object(o) == [kind |-> "object", value |-> o]
Array(s) == [kind |-> "array", items |-> s]
Full == [kind |-> "full"]

\* JSON.stringify renders an undefined array element as null
Null == "null"

Ids == {"T1", "T2"}

\* the order in which GET /task lists the tasks
TaskOrder == <<"T1", "T2", "T3">>

\* the tasks upstream before the first call: one with a title and a tag, one
\* with every optional field absent, one with every field the handlers read
InitialStore ==
  "T1" :> [id |-> "T1", title |-> "Write report", tags |-> <<"work">>] @@
  "T2" :> [id |-> "T2"] @@
  "T3" :> [id |-> "T3", title |-> "Buy milk", content |-> "for the REPORT",
           tags |-> <<"home", "errands">>, priority |-> 5, status |-> 0,
           dueDate |-> "2025-01-20T09:00:00.000+0000"]

\* the projects GET /project lists: an open one, a closed one and one
\* without the closed flag
InitialProjects ==
  <<[id |-> "P1", name |-> "Inbox", closed |-> FALSE],
    [id |-> "P2", name |-> "Archive", closed |-> TRUE],
    [id |-> "P3", name |-> "Home"]>>

\* the habit and the tag upstream: the habit has no reminderTime
InitialHabit ==
  [id |-> "H1", name |-> "Read", frequency |-> "daily", goal |-> 1, color |-> "#111111"]
InitialTag == [id |-> "G1", name |-> "work", color |-> "#222222", usageCount |-> 4]

VARIABLES
  env,       \* the token configuration read at module load
  menu,      \* the tools/call requests the host sends in this run
  calls,     \* the tool invocations: state, outbound requests, replies, outcome
  upstream,  \* the tasks held by the TickTick API, by id
  proc,      \* the server process: starting, serving or exited
  stdout,    \* the lines written to standard output
  removed    \* the resources the TickTick API has deleted, by path

vars == <<env, menu, calls, upstream, proc, stdout, removed>>

\* the tools/call requests of the run
CallIds == DOMAIN calls

\* ------------------------------------------------------ makeTickTickRequest
baseUrl == "https://api.ticktick.com/open/v1"

\* variant: TICKTICK_ACCESS_TOKEN ?? TICKTICK_TOKEN
BearerToken_nullish == IF IsDefined(env.TICKTICK_ACCESS_TOKEN)
                       THEN env.TICKTICK_ACCESS_TOKEN
                       ELSE env.TICKTICK_TOKEN

\* the token placed in the Authorization header
BearerToken == IF TruthyStr(env.TICKTICK_ACCESS_TOKEN)
               THEN env.TICKTICK_ACCESS_TOKEN
               ELSE env.TICKTICK_TOKEN

\* data && method !== 'GET'; data is Undefined (null) or Some(object)
SendsBody(method, data) == IsDefined(data) /\ method # "GET"

\* the (url, config) handed to fetch
FetchConfig(endpoint, method, data) ==
  LET config == [method |-> method,
                 url |-> <<baseUrl>> \o endpoint,
                 headers |-> [Authorization |-> <<"Bearer ", Interpolate(BearerToken)>>,
                              ContentType |-> "application/json"]]
  IN IF SendsBody(method, data)
     THEN Merge(config, [body |-> data[1]])
     ELSE config

\* variant: the Error carries the response text only
ApiError_textOnly(resp) == <<"TickTick API error: ", resp.text>>

\* the Error thrown when the response is not ok
ApiError(resp) ==
  <<"TickTick API error: ", StatusString(resp.status), " ", StatusText(resp.status),
    " - ", resp.text>>

\* the SyntaxError of response.json() on a body that is not JSON
JsonError == <<"Unexpected end of JSON input">>

\* ---------------------------------------------------------------- handlers
\* variant: the template is sent as written
Endpoint_raw(path, obj) == path

\* variant: the endpoint of the first finished call is kept and used again
Endpoint_remembered(path, obj) ==
  LET finished == {c \in DOMAIN calls : calls[c].st = "done" /\ calls[c].sent # <<>>}
      first == CHOOSE c \in finished : \A d \in finished : c <= d
  IN IF finished = {}
     THEN [i \in 1..Len(path) |->
             IF path[i] \in DOMAIN ParamField
             THEN Interpolate(Get(obj, ParamField[path[i]]))
             ELSE path[i]]
     ELSE Tail(calls[first].sent[1].url)

\* `/task/${task_id}`: the template with the arguments substituted
Endpoint(path, obj) ==
  [i \in 1..Len(path) |->
     IF path[i] \in DOMAIN ParamField
     THEN Interpolate(Get(obj, ParamField[path[i]]))
     ELSE path[i]]

\* variant: createTask sets projectId without testing project_id
taskData_projectAlways(obj) ==
  LET fixed == [content |-> IF TruthyStr(Get(obj, "content")) THEN obj.content ELSE "",
                priority |-> IF Has(obj, "priority") THEN obj.priority ELSE 0,
                status |-> 0,
                projectId |-> Interpolate(Get(obj, "project_id"))]
      title == IF Has(obj, "title") THEN [title |-> obj.title] ELSE EmptyObject
      dueDate == IF TruthyStr(Get(obj, "due_date"))
                 THEN [dueDate |-> toISOString(obj.due_date)] ELSE EmptyObject
      tags == IF Has(obj, "tags") /\ Len(obj.tags) # 0
              THEN [tags |-> obj.tags] ELSE EmptyObject
  IN Merge(fixed, Merge(title, Merge(dueDate, tags)))

\* createTask: the taskData object as JSON.stringify renders it (a key whose
\* value is undefined is left out)
taskData(obj) ==
  LET fixed == [content |-> IF TruthyStr(Get(obj, "content")) THEN obj.content ELSE "",
                priority |-> IF Has(obj, "priority") THEN obj.priority ELSE 0,
                status |-> 0]
      title == IF Has(obj, "title") THEN [title |-> obj.title] ELSE EmptyObject
      projectId == IF TruthyStr(Get(obj, "project_id"))
                   THEN [projectId |-> obj.project_id] ELSE EmptyObject
      dueDate == IF TruthyStr(Get(obj, "due_date"))
                 THEN [dueDate |-> toISOString(obj.due_date)] ELSE EmptyObject
      tags == IF Has(obj, "tags") /\ Len(obj.tags) # 0
              THEN [tags |-> obj.tags] ELSE EmptyObject
  IN Merge(fixed, Merge(title, Merge(projectId, Merge(dueDate, tags))))

\* the task a handler reads from the parsed body of GET /task/{id}
TaskOf(body) == IF body.kind = "object" THEN body.value ELSE EmptyObject

\* task.tags || []
currentTags(task) == IF Has(task, "tags") THEN task.tags ELSE <<>>

\* s.includes(x)
Includes(s, x) == \E i \in 1..Len(s) : s[i] = x

\* an argument as an element of a JSON array
JsonItem(x) == IF IsDefined(x) THEN x[1] ELSE Null

\* variant: the tag is pushed without the includes test
addedTags_always(task, tag_name) == Append(currentTags(task), JsonItem(tag_name))

\* addTagToTask: currentTags after the push
addedTags(task, tag_name) ==
  IF Includes(currentTags(task), JsonItem(tag_name))
  THEN currentTags(task)
  ELSE Append(currentTags(task), JsonItem(tag_name))

\* variant: only the first occurrence of the tag is removed
updatedTags_firstOnly(task, tag_name) ==
  LET tags == currentTags(task)
      hits == {i \in 1..Len(tags) : IsDefined(tag_name) /\ tags[i] = tag_name[1]}
      first == CHOOSE i \in hits : \A j \in hits : i <= j
  IN IF hits = {} THEN tags
     ELSE SubSeq(tags, 1, first - 1) \o SubSeq(tags, first + 1, Len(tags))

\* removeTagFromTask: currentTags.filter(tag => tag !== tag_name)
updatedTags(task, tag_name) ==
  LET keep(t) == ~IsDefined(tag_name) \/ t # tag_name[1]
  IN SelectSeq(currentTags(task), keep)

\* { ...task, tags }
WithTags(task, tags) == Merge([tags |-> tags], task)

\* JavaScript truthiness of an optional number
TruthyNum(x) == IsDefined(x) /\ x[1] # 0

\* the object { field: obj[arg] } when the test holds, and {} otherwise
Field(test, field, value) == IF test THEN field :> value ELSE EmptyObject

\* variant: updateHabit overwrites every field the call supplies
updateHabitData_supplied(current, obj) ==
  Merge(Field(Has(obj, "name"), "name", obj.name),
  Merge(Field(Has(obj, "frequency"), "frequency", obj.frequency),
  Merge(Field(Has(obj, "goal"), "goal", obj.goal),
  Merge(Field(Has(obj, "reminder_time"), "reminderTime", obj.reminder_time),
  Merge(Field(Has(obj, "color"), "color", obj.color), current)))))

\* updateHabit: updateData, { ...currentHabit } with the truthy arguments set
updateHabitData(current, obj) ==
  Merge(Field(TruthyStr(Get(obj, "name")), "name", obj.name),
  Merge(Field(TruthyStr(Get(obj, "frequency")), "frequency", obj.frequency),
  Merge(Field(TruthyNum(Get(obj, "goal")), "goal", obj.goal),
  Merge(Field(TruthyStr(Get(obj, "reminder_time")), "reminderTime", obj.reminder_time),
  Merge(Field(TruthyStr(Get(obj, "color")), "color", obj.color), current)))))

\* updateTag: updateData, { ...currentTag } with the truthy arguments set
updateTagData(current, obj) ==
  Merge(Field(TruthyStr(Get(obj, "name")), "name", obj.name),
  Merge(Field(TruthyStr(Get(obj, "color")), "color", obj.color), current))

\* variant: updateTask sets a field only when its argument is truthy
updateTaskData_truthy(obj) ==
  Merge(Field(TruthyStr(Get(obj, "title")), "title", obj.title),
  Merge(Field(TruthyStr(Get(obj, "content")), "content", obj.content),
  Merge(Field(TruthyNum(Get(obj, "priority")), "priority", obj.priority),
  Merge(Field(TruthyStr(Get(obj, "due_date")), "dueDate", toISOString(obj.due_date)),
        Field(Has(obj, "completed") /\ obj.completed, "status", 2)))))

\* updateTask: updateData, with a field for every argument that is not
\* undefined
updateTaskData(obj) ==
  Merge(Field(Has(obj, "title"), "title", obj.title),
  Merge(Field(Has(obj, "content"), "content", obj.content),
  Merge(Field(Has(obj, "priority"), "priority", obj.priority),
  Merge(Field(Has(obj, "due_date"), "dueDate", toISOString(obj.due_date)),
        Field(Has(obj, "completed"), "status", IF obj.completed THEN 2 ELSE 0)))))

\* variant: completeTask sends the flag of the tool's schema
completeData_flag == [completed |-> TRUE]

\* completeTask: the literal { status: 2 }
completeData == [status |-> 2]

\* variant: a handler that passes no data passes an empty object
RequestData_emptyObject(handler, step, obj, got) ==
  CASE step.data = <<>> -> Some([object |-> "{}"])
    [] handler = "createTask" -> Some(taskData(obj))
    [] handler = "addTagToTask" ->
         Some(WithTags(TaskOf(got[1]), addedTags(TaskOf(got[1]), Get(obj, "tag_name"))))
    [] handler = "removeTagFromTask" ->
         Some(WithTags(TaskOf(got[1]), updatedTags(TaskOf(got[1]), Get(obj, "tag_name"))))
    [] handler = "updateHabit" -> Some(updateHabitData(TaskOf(got[1]), obj))
    [] handler = "updateTag" -> Some(updateTagData(TaskOf(got[1]), obj))
    [] handler = "updateTask" -> Some(updateTaskData(obj))
    [] handler = "completeTask" -> Some(completeData)
    [] step.data[1] = "arg" ->
         IF TruthyStr(Get(obj, step.data[2]))
         THEN Some([object |-> obj[step.data[2]]]) ELSE Undefined
    [] OTHER -> Some([object |-> step.data[2]])

\* the third argument of makeTickTickRequest at a step of a handler; got is
\* the sequence of the bodies the handler has received so far
RequestData(handler, step, obj, got) ==
  CASE step.data = <<>> -> Undefined
    [] handler = "createTask" -> Some(taskData(obj))
    [] handler = "addTagToTask" ->
         Some(WithTags(TaskOf(got[1]), addedTags(TaskOf(got[1]), Get(obj, "tag_name"))))
    [] handler = "removeTagFromTask" ->
         Some(WithTags(TaskOf(got[1]), updatedTags(TaskOf(got[1]), Get(obj, "tag_name"))))
    [] handler = "updateHabit" -> Some(updateHabitData(TaskOf(got[1]), obj))
    [] handler = "updateTag" -> Some(updateTagData(TaskOf(got[1]), obj))
    [] handler = "updateTask" -> Some(updateTaskData(obj))
    [] handler = "completeTask" -> Some(completeData)
    [] step.data[1] = "arg" ->
         IF TruthyStr(Get(obj, step.data[2]))
         THEN Some([object |-> obj[step.data[2]]]) ELSE Undefined
    [] OTHER -> Some([object |-> step.data[2]])

\* String(b) for a boolean argument with default true
BoolString(x) == IF IsDefined(x) /\ x[1] = FALSE THEN "false" ELSE "true"

\* getProductivityReport: `?${params}` with params built from time_range
\* (default 'month'), include_habits, include_focus, start_date, end_date
\* and project_ids
ProductivityQuery(obj) ==
  <<"?", "range=", IF Has(obj, "time_range") THEN obj.time_range ELSE "month",
    "&habits=", BoolString(Get(obj, "include_habits")),
    "&focus=", BoolString(Get(obj, "include_focus"))>>
  \o (IF TruthyStr(Get(obj, "start_date")) THEN <<"&start=", obj.start_date>> ELSE <<>>)
  \o (IF TruthyStr(Get(obj, "end_date")) THEN <<"&end=", obj.end_date>> ELSE <<>>)
  \o (IF Has(obj, "project_ids")
      THEN [i \in 1..(2 * Len(obj.project_ids)) |->
              IF i % 2 = 1 THEN "&projects=" ELSE obj.project_ids[i \div 2]]
      ELSE <<>>)

\* String(n) for the numbers a query string carries
NumString(n) ==
  CASE n = 0 -> "0" [] n = 2 -> "2" [] n = 10 -> "10" [] n = 50 -> "50"

\* params.toString(): the appended pairs ('key=', value), joined by '&'
ParamsString(params) ==
  [i \in 1..(3 * Len(params)) |->
     LET p == params[(i + 2) \div 3]
     IN CASE i % 3 = 1 -> IF i = 1 THEN "" ELSE "&"
          [] i % 3 = 2 -> p[1]
          [] OTHER -> p[2]]

\* variant: getTasks appends status only when completed is truthy
TasksQuery_truthy(obj) ==
  LET params ==
        (IF TruthyStr(Get(obj, "project_id"))
         THEN << <<"projectId=", obj.project_id>> >> ELSE <<>>)
        \o (IF Has(obj, "completed") /\ obj.completed
            THEN << <<"status=", NumString(2)>> >> ELSE <<>>)
        \o << <<"limit=", NumString(IF Has(obj, "limit") THEN obj.limit ELSE 50)>> >>
  IN IF params = <<>> THEN <<>> ELSE <<"?">> \o ParamsString(params)

\* getTasks: `?${params}` with projectId, status and limit (default 50)
TasksQuery(obj) ==
  LET params ==
        (IF TruthyStr(Get(obj, "project_id"))
         THEN << <<"projectId=", obj.project_id>> >> ELSE <<>>)
        \o (IF Has(obj, "completed")
            THEN << <<"status=", NumString(IF obj.completed THEN 2 ELSE 0)>> >> ELSE <<>>)
        \o << <<"limit=", NumString(IF Has(obj, "limit") THEN obj.limit ELSE 50)>> >>
  IN IF params = <<>> THEN <<>> ELSE <<"?">> \o ParamsString(params)

\* the query string a handler appends to the path, where it is spelled out
QueryString(handler, obj) ==
  CASE handler = "getProductivityReport" -> ProductivityQuery(obj)
    [] handler = "getTasks" -> TasksQuery(obj)
    [] OTHER -> <<>>

\* variant: a handler that ends with a DELETE sends it without the GET
StepRequest_deleteAtOnce(name, n, obj, got) ==
  LET t == ToolTable[name]
      last == t.steps[Len(t.steps)]
      step == IF last.method = "DELETE" THEN last ELSE t.steps[n]
  IN FetchConfig(Endpoint(step.path, obj) \o QueryString(t.handler, obj), step.method,
                 RequestData(t.handler, step, obj, got))

\* the request of the n-th step of the tool
StepRequest(name, n, obj, got) ==
  LET t == ToolTable[name]
      step == t.steps[n]
  IN FetchConfig(Endpoint(step.path, obj) \o QueryString(t.handler, obj), step.method,
                 RequestData(t.handler, step, obj, got))

\* the code after the last request throws: filterTasks reads
\* task.title.toLowerCase() of every task when keywords is given
FormatThrows(handler, obj, got) ==
  CASE handler = "filterTasks" ->
         /\ TruthyStr(Get(obj, "keywords"))
         /\ got[1].kind = "array"
         /\ \E i \in 1..Len(got[1].items) : ~Has(got[1].items[i], "title")
    [] OTHER -> FALSE

\* s.toLowerCase() for the strings of the tasks and of the keywords
toLowerCase(s) ==
  CASE s = "Write report" -> "write report"
    [] s = "Buy milk" -> "buy milk"
    [] s = "for the REPORT" -> "for the report"
    [] s = "REPORT" -> "report"
    [] OTHER -> s

\* s.includes(k) for lower-case s and k
StrIncludes(s, k) ==
  \/ k = ""
  \/ s = k
  \/ <<s, k>> \in {<<"write report", "report">>, <<"for the report", "report">>,
                   <<"buy milk", "milk">>}

\* new Date(s).getTime() in days of January 2025, for the strings that parse
getTime(s) ==
  CASE s = "2025-01-15T10:00:00" -> 15
    [] s = "2025-01-20T09:00:00.000+0000" -> 20
    [] s = "2025-01-20" -> 20
    [] s = "2025-01-25" -> 25

IsDate(s) ==
  s \in {"2025-01-15T10:00:00", "2025-01-20T09:00:00.000+0000", "2025-01-20", "2025-01-25"}

\* new Date(a) < new Date(b): false when either is an Invalid Date
DateBefore(a, b) == IsDate(a) /\ IsDate(b) /\ getTime(a) < getTime(b)

\* variant: getProjects never lists a closed project
filteredProjects_openOnly(projects, obj) ==
  LET open(p) == ~(Has(p, "closed") /\ p.closed)
  IN SelectSeq(projects, open)

\* getProjects: include_archived ? projects : projects.filter(p => !p.closed)
filteredProjects(projects, obj) ==
  LET open(p) == ~(Has(p, "closed") /\ p.closed)
  IN IF Has(obj, "include_archived") /\ obj.include_archived
     THEN projects
     ELSE SelectSeq(projects, open)

\* filterTasks: allTasks after the filters of the criteria that are given
filteredTasks(allTasks, obj) ==
  LET byKeywords(task) ==
        \/ StrIncludes(toLowerCase(task.title), toLowerCase(obj.keywords))
        \/ /\ TruthyStr(Get(task, "content"))
           /\ StrIncludes(toLowerCase(task.content), toLowerCase(obj.keywords))
      byTags(task) ==
        /\ Has(task, "tags")
        /\ \E i \in 1..Len(obj.tags) : Includes(task.tags, obj.tags[i])
      byPriority(task) == Has(task, "priority") /\ task.priority = obj.priority
      dueBefore(task) ==
        TruthyStr(Get(task, "dueDate")) /\ DateBefore(task.dueDate, obj.due_before)
      dueAfter(task) ==
        TruthyStr(Get(task, "dueDate")) /\ DateBefore(obj.due_after, task.dueDate)
      s1 == IF TruthyStr(Get(obj, "keywords")) THEN SelectSeq(allTasks, byKeywords) ELSE allTasks
      s2 == IF Has(obj, "tags") /\ Len(obj.tags) # 0 THEN SelectSeq(s1, byTags) ELSE s1
      s3 == IF Has(obj, "priority") THEN SelectSeq(s2, byPriority) ELSE s2
      s4 == IF TruthyStr(Get(obj, "due_before")) THEN SelectSeq(s3, dueBefore) ELSE s3
  IN IF TruthyStr(Get(obj, "due_after")) THEN SelectSeq(s4, dueAfter) ELSE s4

\* the text of a listing: the count of the header, `(${items.length} found)`,
\* and the ids of the entries that items.map writes
ListText(items) ==
  [found |-> Len(items), ids |-> [i \in 1..Len(items) |-> Interpolate(Get(items[i], "id"))]]

Content == [content |-> <<[type |-> "text"]>>]

\* what the handler returns after its last request
Result(handler, obj, got) ==
  CASE handler = "getProjects" /\ got[1].kind = "array" ->
         [content |-> <<[type |-> "text",
                         text |-> ListText(filteredProjects(got[1].items, obj))]>>]
    [] handler = "filterTasks" /\ got[1].kind = "array" ->
         [content |-> <<[type |-> "text",
                         text |-> ListText(filteredTasks(got[1].items, obj))]>>]
    [] OTHER -> Content

\* the code before the first request throws: a date that does not parse
\* (new Date(x).toISOString()), or a property read of an absent argument
DateThrows(handler, obj) ==
  CASE handler = "createTask" ->
         TruthyStr(Get(obj, "due_date")) /\ ~IsValidDate(obj.due_date)
    [] handler = "updateTask" ->
         Has(obj, "due_date") /\ ~IsValidDate(obj.due_date)
    [] handler = "convertDatetimeToTicktickFormat" ->
         ~Has(obj, "datetime_string") \/ ~IsValidDate(obj.datetime_string)
    [] OTHER -> FALSE

DerefThrows(name, obj) == \E f \in ToolTable[name].derefs : ~Has(obj, f)

RangeErrorMessage == <<"Invalid time value">>
TypeErrorMessage == <<"Cannot read properties of undefined">>
DestructureMessage == <<"Cannot destructure property of 'undefined'">>

\* the handler's catch: throw new Error(`Failed to ...: ${error.message}`)
HandlerCatch(name, message) == <<ToolTable[name].fail, ": ">> \o message

\* variant: the dispatcher's catch throws the inner message as it is
DispatchCatch_bare(message) == [code |-> InternalError, message |-> message]

\* the dispatcher's catch: McpError(InternalError, `Error: ${error.message}`)
DispatchCatch(message) == [code |-> InternalError, message |-> <<"Error: ">> \o message]

\* outcomes of a call: an McpError thrown to the host, or a content result
Thrown(error) == [kind |-> "error", error |-> error]
Returned(result) == [kind |-> "result", result |-> result]

\* a call that has ended with outcome o, and one waiting for fetch
Ended(call, o) == [call EXCEPT !.st = "done", !.out = Append(@, o)]
Fetching(call, req) == [call EXCEPT !.st = "awaiting", !.sent = Append(@, req)]

\* the handler of a registered tool, up to its first await
HandlerStart(call, name, args) ==
  LET t == ToolTable[name]
      obj == IF IsDefined(args) THEN args[1] ELSE EmptyObject
  IN IF t.destructures /\ ~IsDefined(args)
       THEN Ended(call, Thrown(DispatchCatch(DestructureMessage)))
     ELSE IF DateThrows(t.handler, obj)
       THEN Ended(call, Thrown(DispatchCatch(HandlerCatch(name, RangeErrorMessage))))
     ELSE IF DerefThrows(name, obj)
       THEN Ended(call, Thrown(DispatchCatch(HandlerCatch(name, TypeErrorMessage))))
     ELSE IF t.steps = <<>>
       THEN Ended(call, Returned(Content))
     ELSE Fetching(call, StepRequest(name, 1, obj, <<>>))

\* variant: the tokens are tested against undefined
NoCredentials_undefinedOnly ==
  env.TICKTICK_ACCESS_TOKEN = Undefined /\ env.TICKTICK_TOKEN = Undefined

\* !TICKTICK_ACCESS_TOKEN && !TICKTICK_TOKEN
NoCredentials == ~TruthyStr(env.TICKTICK_ACCESS_TOKEN) /\ ~TruthyStr(env.TICKTICK_TOKEN)

\* the default branch of the switch, thrown inside the try
UnknownTool(name) == [code |-> MethodNotFound, message |-> <<"Unknown tool: ", name>>]

\* the CallToolRequestSchema handler, up to its first await
Dispatch(call, name, args) ==
  IF NoCredentials
    THEN Ended(call, Thrown([code |-> InvalidRequest,
                             message |-> <<"TickTick credentials not properly configured">>]))
  ELSE IF name \in Registered
    THEN HandlerStart(call, name, args)
  ELSE Ended(call, Thrown(DispatchCatch(UnknownTool(name).message)))

\* variant: the handler returns after its first request
HandlerResume_firstOnly(call) == Ended(call, Returned(Content))

\* the parsed bodies the call has received
Got(call) == [i \in 1..Len(call.rcvd) |-> call.rcvd[i][1].body]

\* the handler resumes with the parsed body of an ok response
HandlerResume(call) ==
  LET t == ToolTable[call.name]
      n == Len(call.sent)
  IN IF n < Len(t.steps)
       THEN Fetching(call, StepRequest(call.name, n + 1, call.args[1], Got(call)))
     ELSE IF FormatThrows(t.handler, call.args[1], Got(call))
       THEN Ended(call, Thrown(DispatchCatch(HandlerCatch(call.name, TypeErrorMessage))))
     ELSE Ended(call, Returned(Result(t.handler, call.args[1], Got(call))))

\* variant: a response that is not ok is retried once
AfterFetch_retry(call, resp) ==
  IF ~ResponseOk(resp)
    THEN IF Len(call.rcvd) < 2
         THEN Fetching(call, call.sent[Len(call.sent)])
         ELSE Ended(call, Thrown(DispatchCatch(HandlerCatch(call.name, ApiError(resp)))))
  ELSE IF ~resp.json
    THEN Ended(call, Thrown(DispatchCatch(HandlerCatch(call.name, JsonError))))
  ELSE IF Len(call.sent) < Len(ToolTable[call.name].steps)
    THEN Fetching(call, StepRequest(call.name, Len(call.sent) + 1, call.args[1], Got(call)))
  ELSE Ended(call, Returned(Content))

\* makeTickTickRequest after fetch has resolved with resp
AfterFetch(call, resp) ==
  IF ~ResponseOk(resp)
    THEN Ended(call, Thrown(DispatchCatch(HandlerCatch(call.name, ApiError(resp)))))
  ELSE IF ~resp.json
    THEN Ended(call, Thrown(DispatchCatch(HandlerCatch(call.name, JsonError))))
  ELSE HandlerResume(call)

\* ------------------------------------------------------------ the upstream
\* the body of a 2xx JSON answer to the request: the stored task for
\* GET /task/{id}, the written task for PUT /task/{id}, the stored tasks for
\* GET /task
Serve(store, req) ==
  IF Len(req.url) = 3 /\ req.url[2] = "/task/"
    THEN CASE req.method = "GET" ->
                Object(IF req.url[3] \in DOMAIN store THEN store[req.url[3]] ELSE EmptyObject)
           [] req.method = "PUT" /\ "body" \in DOMAIN req -> Object(req.body)
           [] OTHER -> Full
  ELSE IF req.url = <<baseUrl, "/project">> /\ req.method = "GET"
    THEN Array(InitialProjects)
  ELSE IF Len(req.url) = 3 /\ req.url[2] = "/habit/" /\ req.method = "GET"
    THEN Object(InitialHabit)
  ELSE IF Len(req.url) = 3 /\ req.url[2] = "/tag/" /\ req.method = "GET"
    THEN Object(InitialTag)
  ELSE IF /\ req.url[2] = "/task" /\ req.method = "GET"
          /\ (Len(req.url) = 2 \/ req.url[3] = "?")
    THEN Array([i \in 1..Len(TaskOrder) |-> store[TaskOrder[i]]])
  ELSE Full

\* the store after the upstream has answered the request: a PUT /task/{id}
\* answered 2xx has replaced the task
Apply(store, req, resp) ==
  IF /\ ResponseOk(resp) /\ req.method = "PUT" /\ "body" \in DOMAIN req
     /\ Len(req.url) = 3 /\ req.url[2] = "/task/" /\ req.url[3] \in DOMAIN store
  THEN [store EXCEPT ![req.url[3]] = req.body]
  ELSE store

\* the deleted resources after the upstream has answered the request: a
\* DELETE answered 2xx has deleted the resource of the path
Remove(gone, req, resp) ==
  IF ResponseOk(resp) /\ req.method = "DELETE"
  THEN gone \cup {Tail(req.url)}
  ELSE gone

\* the response as makeTickTickRequest sees it
Reply(store, req, resp) ==
  IF ResponseOk(resp) /\ resp.json
  THEN Merge(resp, [body |-> Serve(store, req)])
  ELSE resp

\* ------------------------------------------------------- standard output
\* a line written by console.log, and a JSON-RPC message written by the
\* transport
ConsoleLog(parts) == [rpc |-> FALSE, line |-> parts]
JsonRpc(parts) == [rpc |-> TRUE, line |-> parts]

Range(s) == {s[i] : i \in 1..Len(s)}

\* the console.log calls of makeTickTickRequest the call has executed (no
\* handler passes data with GET, so data was given when a body was sent)
RequestLines(call) ==
  {ConsoleLog(<<" TickTick API Request: ", r.method, " ">> \o r.url) :
     r \in Range(call.sent)}
  \cup {ConsoleLog(<<" Request Data:">>) :
          r \in {q \in Range(call.sent) : "body" \in DOMAIN q}}
  \cup {ConsoleLog(<<" TickTick API Response: ", StatusString(x[1].status), " ",
                     StatusText(x[1].status)>>) :
          x \in {y \in Range(call.rcvd) : y # <<>>}}
  \cup {ConsoleLog(<<" Response Data:">>) :
          x \in {y \in Range(call.rcvd) : y # <<>> /\ ResponseOk(y[1]) /\ y[1].json}}

\* the JSON-RPC response the transport writes when the handler has settled
ResponseLines(call) ==
  {JsonRpc(IF o.kind = "error" THEN <<"tools/call", "error", o.error.code>>
                               ELSE <<"tools/call", "result">>) :
     o \in Range(call.out)}

\* what the call has written to standard output
Lines(call) == RequestLines(call) \cup ResponseLines(call)

\* the console.log calls of run() after the transport is connected (the lines
\* that list the tools are gathered in one; the Client ID line is left out)
Banner ==
  {ConsoleLog(<<" TickTick MCP Server started">>),
   ConsoleLog(<<" Token: ", IF TruthyStr(env.TICKTICK_TOKEN)
                             THEN " Configured" ELSE " Missing">>),
   ConsoleLog(<<" Access Token: ", IF TruthyStr(env.TICKTICK_ACCESS_TOKEN)
                                    THEN " Configured" ELSE " Missing">>),
   ConsoleLog(<<" Available tools (112 total):">>),
   ConsoleLog(<<" Server ready for connections...">>)}

\* ------------------------------------------------------------ the process
Starting == [status |-> "starting", exit |-> Undefined]
Serving == [status |-> "serving", exit |-> Undefined]
Exited(code) == [status |-> "exited", exit |-> Some(code)]

\* variant: a request handler that throws ends the process
Settled_exitOnThrow(p, call) ==
  IF call.st = "done" /\ call.out[Len(call.out)].kind = "error"
  THEN Exited(1) ELSE p

\* the process after the request handler has run to an await or to its end:
\* an McpError it throws is answered by the SDK and nothing calls process.exit
Settled(p, call) == p

\* ------------------------------------------------------- the host's inputs
\* the argument names a handler reads into a path, dereferences or passes on
UsedFields(name) ==
  LET t == ToolTable[name]
  IN t.required \cup t.derefs
       \cup {t.steps[i].data[2] : i \in {j \in 1..Len(t.steps) :
                                          t.steps[j].data # <<>> /\ t.steps[j].data[1] = "arg"}}

Opt(f, values) == {EmptyObject} \cup {f :> v : v \in values}

createTaskArgs ==
  LET all == { Merge(a, Merge(b, Merge(c, Merge(d, Merge(e, g))))) :
                 a \in Opt("title", {"Test"}), b \in Opt("content", {"", "hello"}),
                 c \in Opt("project_id", {"P1"}), d \in Opt("priority", {0, 5}),
                 e \in Opt("due_date", ValidDates \cup InvalidDates),
                 g \in Opt("tags", {<<>>, <<"work">>}) }
  IN {o \in all : Cardinality(DOMAIN o \ {"title"}) <= MaxOptional}

DateArgs(name) ==
  IF ToolTable[name].dates = {} THEN {EmptyObject}
  ELSE UNION {Opt(f, {""} \cup ValidDates \cup InvalidDates) : f \in ToolTable[name].dates}

\* the arguments the documentation shows for the names it uses that the
\* switch has no case for
DocumentedArgs(name) ==
  CASE name = "ticktick_get_cached_tasks" -> {EmptyObject, [project_id |-> "P1"]}
    [] name = "ticktick_register_task_id" ->
         {[task_id |-> "T1", project_id |-> "P1", title |-> "Test"]}
    [] name = "ticktick_import_from_csv" ->
         {[csv_data |-> "task_id,project_id,title"]}
    [] name = "ticktick_check_in_habit" ->
         {[habit_id |-> "T1", date |-> "2024-01-15"]}

\* argument objects the documentation shows, beyond the required fields
ExtraArgs(name) ==
  CASE name = "ticktick_get_task_details" ->
         {[project_id |-> "P1", task_id |-> v] : v \in Ids}
    [] name = "ticktick_filter_tasks" -> {[keywords |-> "report"]}
    [] name = "ticktick_get_productivity_report" ->
         {[period |-> "week", include_charts |-> TRUE], [time_range |-> "week"]}
    [] name = "ticktick_checkin_habit" -> {[habit_id |-> "T1", date |-> "2024-01-15"]}
    [] OTHER -> {}

\* argument objects with the optional properties of the tool's inputSchema
OptionalArgs(name) ==
  CASE name = "ticktick_filter_tasks" ->
         {[keywords |-> ""], [tags |-> <<>>],
          [tags |-> <<"work", "errands">>], [priority |-> 0], [priority |-> 5],
          [due_before |-> "2025-01-25"], [due_before |-> "2025-01-20"],
          [due_after |-> "2025-01-15T10:00:00"], [due_after |-> "next tuesday"],
          [tags |-> <<"home">>, priority |-> 5, due_before |-> "2025-01-25",
           due_after |-> "2025-01-15T10:00:00"]}
    [] name = "ticktick_get_projects" ->
         {[include_archived |-> b] : b \in BOOLEAN}
    [] name = "ticktick_update_habit" ->
         {[habit_id |-> "H1", name |-> "Run"], [habit_id |-> "H1", name |-> ""],
          [habit_id |-> "H1", goal |-> 0], [habit_id |-> "H1", goal |-> 3],
          [habit_id |-> "H1", goal |-> 0, reminder_time |-> "07:00"],
          [habit_id |-> "H1", frequency |-> "weekly", color |-> ""],
          [habit_id |-> "H1", name |-> "Run", frequency |-> "weekly", goal |-> 3,
           reminder_time |-> "07:00", color |-> "#333333"]}
    [] name = "ticktick_update_tag" ->
         {[tag_id |-> "G1", name |-> "home"], [tag_id |-> "G1", name |-> ""],
          [tag_id |-> "G1", color |-> "#444444"],
          [tag_id |-> "G1", name |-> "home", color |-> ""]}
    [] name = "ticktick_update_task" ->
         {[task_id |-> v, completed |-> b] : v \in Ids, b \in BOOLEAN} \cup
         {[task_id |-> "T1", title |-> "New", priority |-> 0],
          [task_id |-> "T1", title |-> "", content |-> ""],
          [task_id |-> "T1", content |-> "hello", completed |-> FALSE],
          [task_id |-> "T1", title |-> "New", content |-> "hello", priority |-> 5,
           due_date |-> "2025-01-15T10:00:00", completed |-> TRUE]}
    [] name = "ticktick_get_tasks" ->
         {Merge(a, Merge(b, c)) :
            a \in Opt("project_id", {"", "P1"}), b \in Opt("completed", BOOLEAN),
            c \in Opt("limit", {0, 10})}
    [] OTHER -> {}

\* argument objects: every used field set to an id, or all but one of them,
\* with or without a date, and the objects with more fields
ArgObjects(name) ==
  IF name \notin Registered THEN DocumentedArgs(name)
  ELSE IF name = "ticktick_create_task" THEN createTaskArgs
  ELSE LET F == UsedFields(name) \ ToolTable[name].dates
           full == {[f \in F |-> v] : v \in Ids}
           some == {[f \in F \ {g} |-> "T1"] : g \in F}
       IN {Merge(d, o) : o \in full \cup some, d \in DateArgs(name)}
            \cup ExtraArgs(name) \cup OptionalArgs(name)

\* request.params of a tools/call: the name and the optional arguments
Inputs == {[name |-> n, arguments |-> a] :
             n \in ToolNames, a \in {Undefined}} \cup
          UNION {{[name |-> n, arguments |-> Some(o)] : o \in ArgObjects(n)} : n \in ToolNames}

Idle == [st |-> "idle", name |-> "", args |-> Undefined,
         sent |-> <<>>, rcvd |-> <<>>, out |-> <<>>]

\* ------------------------------------------------------------------ actions
Init ==
  /\ env \in [TICKTICK_ACCESS_TOKEN : AccessTokenValues, TICKTICK_TOKEN : TokenValues]
  /\ menu \in {{i} : i \in Inputs}
  /\ calls = [c \in 1..MaxCalls |-> Idle]
  /\ upstream = InitialStore
  /\ removed = {}
  /\ proc = Starting
  /\ stdout = {}

\* run(): server.connect(transport) resolves and the banner is logged
Connect ==
  /\ proc.status = "starting"
  /\ proc' = Serving
  /\ stdout' = stdout \cup Banner
  /\ UNCHANGED <<env, menu, calls, upstream, removed>>

\* run() rejects: the entry point logs to stderr and calls process.exit(1)
ConnectFails ==
  /\ proc.status = "starting"
  /\ proc' = Exited(1)
  /\ UNCHANGED <<env, menu, calls, upstream, stdout, removed>>

\* variant: the first tool is missing from the tools array
ListTools_omitsFirst ==
  /\ proc.status = "serving"
  /\ stdout' = stdout \cup {JsonRpc(<<"tools/list", "result">> \o Tail(ListedTools))}
  /\ UNCHANGED <<env, menu, calls, upstream, proc, removed>>

\* the host sends tools/list: the transport writes the tools array
ListTools ==
  /\ proc.status = "serving"
  /\ stdout' = stdout \cup {JsonRpc(<<"tools/list", "result">> \o ListedTools)}
  /\ UNCHANGED <<env, menu, calls, upstream, proc, removed>>

\* the host sends tools/call: the handler runs to its first await
CallTool(c, in) ==
  /\ proc.status = "serving"
  /\ calls[c].st = "idle"
  /\ \A d \in CallIds : d < c => calls[d].st # "idle"
  /\ LET new == Dispatch([calls[c] EXCEPT !.name = in.name, !.args = in.arguments],
                         in.name, in.arguments)
     IN /\ calls' = [calls EXCEPT ![c] = new]
        /\ proc' = Settled(proc, new)
        /\ stdout' = stdout \cup Lines(new)
  /\ UNCHANGED <<env, menu, upstream, removed>>

\* the upstream answers the request of the call and fetch resolves
FetchResolves(c, resp) ==
  /\ proc.status = "serving"
  /\ calls[c].st = "awaiting"
  /\ LET req == calls[c].sent[Len(calls[c].sent)]
         reply == Reply(upstream, req, resp)
         new == AfterFetch([calls[c] EXCEPT !.rcvd = Append(@, Some(reply))], reply)
     IN /\ calls' = [calls EXCEPT ![c] = new]
        /\ upstream' = Apply(upstream, req, resp)
        /\ removed' = Remove(removed, req, resp)
        /\ proc' = Settled(proc, new)
        /\ stdout' = stdout \cup Lines(new)
  /\ UNCHANGED <<env, menu>>

\* fetch rejects (network failure)
FetchRejects(c) ==
  /\ proc.status = "serving"
  /\ calls[c].st = "awaiting"
  /\ LET new == Ended([calls[c] EXCEPT !.rcvd = Append(@, Undefined)],
                      Thrown(DispatchCatch(HandlerCatch(calls[c].name, FetchFailed.message))))
     IN /\ calls' = [calls EXCEPT ![c] = new]
        /\ proc' = Settled(proc, new)
        /\ stdout' = stdout \cup Lines(new)
  /\ UNCHANGED <<env, menu, upstream, removed>>

Next ==
  \/ Connect
  \/ ConnectFails
  \/ \E c \in CallIds, in \in menu : CallTool(c, in)
  \/ \E c \in CallIds, resp \in Responses : FetchResolves(c, resp)
  \/ \E c \in CallIds : FetchRejects(c)

Spec == Init /\ [][Next]_vars


\* ------------------------------------------------------------- a session
\* a run in which the host sends different tools/call requests
Call(name, obj) == [name |-> name, arguments |-> Some(obj)]

AddTag(tag) == Call("ticktick_add_tag_to_task", [task_id |-> "T1", tag_name |-> tag])

RemoveTag(id, tag) ==
  Call("ticktick_remove_tag_from_task", [task_id |-> id, tag_name |-> tag])

\* calls that change the tags of one task: T1 has tags, T2 has no tags field
TagMenus ==
  { {AddTag("home"), AddTag("urgent")},
    {AddTag("home"), RemoveTag("T1", "work")},
    {AddTag("home"), RemoveTag("T1", "home")},
    {AddTag("work")},
    {Call("ticktick_add_tag_to_task", [task_id |-> "T2", tag_name |-> "home"]),
     RemoveTag("T2", "home")} }

\* the tasks upstream before the first call of such a run: T1 with one tag,
\* or with a tag that occurs twice among others
TagStores ==
  { InitialStore,
    [InitialStore EXCEPT !["T1"].tags = <<"work", "errands", "work", "later">>] }

SessionMenus ==
  { {Call("ticktick_create_task", [title |-> "Test", project_id |-> "P1"]),
     Call("ticktick_get_cached_tasks", [project_id |-> "P1"])},
    {Call("ticktick_register_task_id",
          [task_id |-> "T1", project_id |-> "P1", title |-> "Test"]),
     Call("ticktick_get_cached_tasks", EmptyObject)},
    {Call("ticktick_import_from_csv", [csv_data |-> "task_id,project_id,title"]),
     Call("ticktick_get_cached_tasks", EmptyObject)},
    {Call("ticktick_get_task_details", [task_id |-> "T1"]),
     Call("ticktick_delete_task", [task_id |-> "T2"])},
    {AddTag("home"), Call("ticktick_complete_task", [task_id |-> "T2"])},
    {Call("ticktick_complete_task", [task_id |-> "T2"]),
     Call("ticktick_update_task", [task_id |-> "T2", completed |-> TRUE])},
    {Call("ticktick_complete_task", [task_id |-> "T1"]),
     Call("ticktick_update_task", [task_id |-> "T1", completed |-> TRUE]),
     Call("ticktick_update_task", [task_id |-> "T2", completed |-> FALSE])} }

SessionEnvs ==
  { [TICKTICK_ACCESS_TOKEN |-> Some("access-token"), TICKTICK_TOKEN |-> Undefined],
    [TICKTICK_ACCESS_TOKEN |-> Undefined, TICKTICK_TOKEN |-> Some("legacy-token")] }

\* concurrent calls on the tags of one task
InitTags ==
  /\ env \in SessionEnvs
  /\ menu \in TagMenus
  /\ calls = [c \in 1..MaxCalls |-> Idle]
  /\ upstream \in TagStores
  /\ removed = {}
  /\ proc = Starting
  /\ stdout = {}

Tags == InitTags /\ [][Next]_vars

InitSession ==
  /\ env \in SessionEnvs
  /\ menu \in SessionMenus
  /\ calls = [c \in 1..MaxSession |-> Idle]
  /\ upstream = InitialStore
  /\ removed = {}
  /\ proc = Starting
  /\ stdout = {}

Session == InitSession /\ [][Next]_vars

\* ---------------------------------------------------- a run with tools/list
\* the host may send tools/list at any time between its tools/call requests
InitListing ==
  /\ env \in [TICKTICK_ACCESS_TOKEN : AccessTokenValues, TICKTICK_TOKEN : TokenValues]
  /\ menu \in {{i} : i \in Inputs}
  /\ calls = [c \in 1..MaxListed |-> Idle]
  /\ upstream = InitialStore
  /\ removed = {}
  /\ proc = Starting
  /\ stdout = {}

NextListing ==
  \/ ListTools
  \/ Next

Listing == InitListing /\ [][NextListing]_vars
\* ------------------------------------------------------------ properties
Started == {c \in CallIds : calls[c].st # "idle"}
Done == {c \in CallIds : calls[c].st = "done"}

\* a token variable that is set and not empty
IsSet(x) == x # <<>> /\ x # <<"">>
CredentialsConfigured == IsSet(env.TICKTICK_ACCESS_TOKEN) \/ IsSet(env.TICKTICK_TOKEN)

\* the call ended with exactly one McpError of the given code
EndedWithError(c, code) ==
  /\ calls[c].st = "done"
  /\ Len(calls[c].out) = 1
  /\ calls[c].out[1].kind = "error"
  /\ calls[c].out[1].error.code = code

EndedWithContent(c) ==
  /\ calls[c].st = "done"
  /\ Len(calls[c].out) = 1
  /\ calls[c].out[1].kind = "result"

\* the argument object of a call that has one
ArgsOf(c) == calls[c].args[1]

\* C1 (as claimed): with credentials configured, a call that names no
\* registered tool ends with an error of code MethodNotFound and sends no
\* request.
C1_UnknownToolIsMethodNotFound ==
  \A c \in Started :
    (CredentialsConfigured /\ calls[c].name \notin Registered)
      => EndedWithError(c, MethodNotFound) /\ calls[c].sent = <<>>

\* C2: with neither token set (or both empty) every call, whatever its tool
\* name and arguments, ends with InvalidRequest and sends no request.
C2_NoCredentialsIsInvalidRequest ==
  ~CredentialsConfigured =>
    \A c \in Started : EndedWithError(c, InvalidRequest) /\ calls[c].sent = <<>>

C2_Witness ==
  /\ env.TICKTICK_ACCESS_TOKEN = <<"">> /\ env.TICKTICK_TOKEN = <<"">>
  /\ \E c, d \in Done :
       /\ c # d
       /\ calls[c].name = "ticktick_get_task_details"
       /\ calls[c].args = <<[task_id |-> "T1"]>>
       /\ calls[d].out = calls[c].out

\* C3 (as claimed): a call to a registered tool whose argument object lacks a
\* field of the schema's required list ends with InvalidRequest and sends no
\* request.
MissesRequired(c) ==
  /\ calls[c].name \in Registered
  /\ calls[c].args # <<>>
  /\ ~(ToolTable[calls[c].name].required \subseteq DOMAIN ArgsOf(c))

C3_MissingRequiredIsRejected ==
  \A c \in Started :
    (CredentialsConfigured /\ MissesRequired(c))
      => EndedWithError(c, InvalidRequest) /\ calls[c].sent = <<>>

\* C4 (as claimed): a finished call to a registered tool, made with
\* credentials configured, has sent exactly one request.
C4_ExactlyOneRequest ==
  \A c \in Done :
    (CredentialsConfigured /\ calls[c].name \in Registered)
      => Len(calls[c].sent) = 1

\* the tools that read a resource and then write or delete it
ReadThenWrite ==
  {"ticktick_add_tag_to_task", "ticktick_remove_tag_from_task",
   "ticktick_update_habit", "ticktick_update_tag", "ticktick_delete_task_note",
   "ticktick_delete_task_attachment", "ticktick_delete_task_template"}

NoRequest == {"ticktick_convert_datetime_to_ticktick_format"}

\* every required argument is present and every date argument parses
WellFormed(c) ==
  /\ calls[c].args # <<>>
  /\ ToolTable[calls[c].name].required \subseteq DOMAIN ArgsOf(c)
  /\ \A f \in {"due_date", "datetime_string"} \cap DOMAIN ArgsOf(c) :
       ArgsOf(c)[f] \in ValidDates

\* the first reply was a 2xx response with a JSON body
FirstReplyOk(c) ==
  /\ Len(calls[c].rcvd) >= 1
  /\ calls[c].rcvd[1] # <<>>
  /\ calls[c].rcvd[1][1].status \in 200..299
  /\ calls[c].rcvd[1][1].json

\* C4 (amended): a finished call to a registered tool sends no request for
\* the datetime conversion tool or when no argument object is given to a
\* handler that destructures it; a GET and, only after the GET succeeded, a
\* second request for the seven read-then-write tools; exactly one request
\* for every other well-formed call; and never more than one otherwise.
C4_RequestCount ==
  \A c \in Done :
    (CredentialsConfigured /\ calls[c].name \in Registered) =>
      LET n == Len(calls[c].sent)
          name == calls[c].name
      IN /\ name \in NoRequest => n = 0
         /\ (calls[c].args = <<>> /\ ToolTable[name].destructures) => n = 0
         /\ name \in ReadThenWrite =>
              /\ n <= 2
              /\ WellFormed(c) => n >= 1
              /\ n = 2 <=> (n >= 1 /\ FirstReplyOk(c))
              /\ n = 2 => /\ calls[c].sent[1].method = "GET"
                          /\ calls[c].sent[2].method \in {"PUT", "DELETE"}
         /\ name \notin ReadThenWrite \cup NoRequest =>
              /\ n <= 1
              /\ WellFormed(c) => n = 1

C4_Witness ==
  \E c, d \in Done :
    /\ calls[c].name = "ticktick_add_tag_to_task" /\ Len(calls[c].sent) = 2
    /\ EndedWithContent(c)
    /\ calls[d].name = "ticktick_add_tag_to_task" /\ Len(calls[d].sent) = 1

\* a reply that is a failure: a rejected fetch or a response that is not 2xx
IsFailure(reply) == reply = <<>> \/ reply[1].status \notin 200..299

\* the message has the part
Contains(message, part) == \E i \in 1..Len(message) : message[i] = part

\* C5: when the upstream API answers a request of a call with a status that
\* is not 2xx, the call ends with one InternalError whose message has the
\* status code and the status text; a rejected fetch also ends the call with
\* one InternalError; no content is returned.
C5_UpstreamFailureIsInternalError ==
  \A c \in Started : \A i \in 1..Len(calls[c].rcvd) :
    IsFailure(calls[c].rcvd[i]) =>
      /\ EndedWithError(c, InternalError)
      /\ calls[c].rcvd[i] # <<>> =>
           LET status == calls[c].rcvd[i][1].status
               message == calls[c].out[1].error.message
           IN /\ Contains(message, IF status = 404 THEN "404" ELSE "500")
              /\ Contains(message, IF status = 404 THEN "Not Found"
                                   ELSE "Internal Server Error")

C5_Witness ==
  \E c, d \in Done :
    /\ calls[c].rcvd = << <<[status |-> 404, json |-> TRUE,
                            text |-> "{\"error\":\"not found\"}"]>> >>
    /\ Len(calls[d].rcvd) = 2 /\ calls[d].rcvd[2] = <<>>

C8_BearerToken ==
  \A c \in Started : \A i \in 1..Len(calls[c].sent) :
    LET auth == calls[c].sent[i].headers.Authorization
        token == IF IsSet(env.TICKTICK_ACCESS_TOKEN)
                 THEN env.TICKTICK_ACCESS_TOKEN ELSE env.TICKTICK_TOKEN
    IN /\ IsSet(token)
       /\ auth = <<"Bearer ", token[1]>>
       /\ auth[2] \notin {"", "undefined"}

C8_Witness ==
  /\ env.TICKTICK_ACCESS_TOKEN = <<"">>
  /\ env.TICKTICK_TOKEN = <<"legacy-token">>
  /\ \E c \in Started : Len(calls[c].sent) = 2

\* the handler gave makeTickTickRequest a data argument at the i-th request
SuppliesData(c, i) ==
  LET data == ToolTable[calls[c].name].steps[i].data
  IN /\ data # <<>>
     /\ data[1] = "arg" => (data[2] \in DOMAIN ArgsOf(c) /\ ArgsOf(c)[data[2]] # "")

\* C9: a request sent has a body exactly when its method is not GET and the
\* handler supplied data; a GET has none, and PUT /project/{id}/archive and
\* DELETE /task/{id} have none.
C9_BodyIffDataAndNotGet ==
  \A c \in Started : \A i \in 1..Len(calls[c].sent) :
    LET r == calls[c].sent[i]
    IN /\ "body" \in DOMAIN r <=> (r.method # "GET" /\ SuppliesData(c, i))
       /\ r.method = "GET" => "body" \notin DOMAIN r
       /\ calls[c].name \in {"ticktick_archive_project", "ticktick_delete_task"}
            => "body" \notin DOMAIN r

C9_Witness ==
  \E c \in Started :
    /\ calls[c].name = "ticktick_archive_project"
    /\ Len(calls[c].sent) = 1
    /\ calls[c].sent[1].method = "PUT"
    /\ calls[c].sent[1].url = <<"https://api.ticktick.com/open/v1", "/project/", "T1", "/archive">>
    /\ "body" \notin DOMAIN calls[c].sent[1]

\* a request of the call has failed
HasFailed(c) == \E i \in 1..Len(calls[c].rcvd) : IsFailure(calls[c].rcvd[i])

\* C10: once a request of a call has failed, the failed request was the last
\* one the call sent, the call has ended with exactly one error, and from then
\* on the call sends nothing more and returns nothing more.
C10_NoRetry ==
  /\ [](\A c \in CallIds : HasFailed(c) =>
          /\ calls[c].st = "done"
          /\ IsFailure(calls[c].rcvd[Len(calls[c].rcvd)])
          /\ Len(calls[c].sent) = Len(calls[c].rcvd)
          /\ Len(calls[c].out) = 1
          /\ calls[c].out[1].kind = "error")
  /\ [][\A c \in CallIds : HasFailed(c) =>
          /\ calls'[c].sent = calls[c].sent
          /\ calls'[c].out = calls[c].out]_vars

C10_Witness ==
  \E c, d \in Done :
    /\ c # d
    /\ Len(calls[c].sent) = 2 /\ HasFailed(c)
    /\ Len(calls[d].sent) = 1 /\ calls[d].rcvd = <<<<>>>>


\* the call names add_tag_to_task with a task and a tag
IsAddTag(c) ==
  /\ calls[c].name = "ticktick_add_tag_to_task"
  /\ calls[c].args # <<>>
  /\ {"task_id", "tag_name"} \subseteq DOMAIN ArgsOf(c)

\* C11 (as claimed): when two add_tag_to_task calls that add different tags
\* to the same task are the calls of the run and both have returned their
\* result, in whatever order their requests were answered, the task upstream
\* has both tags, as it has after running them one after the other.
C11_ConcurrentAddsKeepBothTags ==
  \A c, d \in Done :
    ( /\ Cardinality(Started) = 2 /\ c # d
      /\ IsAddTag(c) /\ IsAddTag(d)
      /\ ArgsOf(c).task_id = ArgsOf(d).task_id
      /\ ArgsOf(c).task_id \in Ids
      /\ ArgsOf(c).tag_name # ArgsOf(d).tag_name
      /\ EndedWithContent(c) /\ EndedWithContent(d) )
    => /\ Includes(currentTags(upstream[ArgsOf(c).task_id]), ArgsOf(c).tag_name)
       /\ Includes(currentTags(upstream[ArgsOf(c).task_id]), ArgsOf(d).tag_name)

\* what C12 compares of a request: method, path and the keys of the body
RequestShape(r) ==
  [method |-> r.method, path |-> r.url,
   keys |-> IF "body" \in DOMAIN r THEN DOMAIN r.body ELSE {}]

\* calls c and d were answered alike before their k-th request
SameReplies(c, d, k) == \A j \in 1..(k - 1) : calls[c].rcvd[j] = calls[d].rcvd[j]

SameCall(c, d) == calls[c].name = calls[d].name /\ calls[c].args = calls[d].args

Min(a, b) == IF a <= b THEN a ELSE b

SparseOk(c, k) ==
  /\ calls[c].rcvd[k] # <<>>
  /\ calls[c].rcvd[k][1].status \in 200..299
  /\ calls[c].rcvd[k][1].json \/ calls[c].sent[k].method = "DELETE"

\* C13 (as claimed): a finished call to a registered tool all of whose
\* requests were answered 2xx, with a JSON body whose optional fields may be
\* absent or with an empty body to a DELETE, has returned a content result
\* with a single text block and no error.
C13_SparseReplyIsContent ==
  \A c \in Done :
    ( /\ CredentialsConfigured /\ calls[c].name \in Registered
      /\ calls[c].rcvd # <<>>
      /\ \A k \in 1..Len(calls[c].rcvd) : SparseOk(c, k) )
    => /\ EndedWithContent(c)
       /\ Len(calls[c].out[1].result.content) = 1
       /\ calls[c].out[1].result.content[1].type = "text"

\* the tools/list results written so far, and the names of one
Listings == {l \in stdout : l.rpc /\ l.line[1] = "tools/list"}
NamesOf(l) == {l.line[i] : i \in 3..Len(l.line)}

\* the call ended with the error of the switch's default branch
EndedUnknown(c) ==
  /\ calls[c].st = "done"
  /\ calls[c].out[1].kind = "error"
  /\ Contains(calls[c].out[1].error.message, "Unknown tool: ")

\* the call was routed to a handler
Routed(c) ==
  /\ CredentialsConfigured
  /\ ~EndedUnknown(c)

\* C14: every tools/list result has 112 names, all distinct, and they are the
\* names the dispatcher routes: a call that names a listed tool never ends
\* as an unknown tool, and a call routed to a handler names a listed tool.
C14_ListEqualsDispatch ==
  \A l \in Listings :
    /\ Len(l.line) - 2 = 112
    /\ Cardinality(NamesOf(l)) = 112
    /\ NamesOf(l) = Registered
    /\ \A c \in Started :
         /\ calls[c].name \in NamesOf(l) => ~EndedUnknown(c)
         /\ Routed(c) => calls[c].name \in NamesOf(l)

\* tools/list has been answered, the first listed tool has been called and
\* has returned its result, with credentials configured
C14_Witness ==
  /\ Listings # {}
  /\ CredentialsConfigured
  /\ \E c \in Done : calls[c].name = "ticktick_get_projects" /\ EndedWithContent(c)

\* C15: the process has exited only with status 1 and before any request
\* was served (the transport failed to connect), and a step taken while the
\* process is serving, whatever the outcome of the call it belongs to, leaves
\* it serving.
C15_ExitOnlyAtStartup ==
  /\ [](proc.status = "exited" =>
          /\ proc.exit = Some(1)
          /\ Started = {}
          /\ stdout = {})
  /\ [][proc.status = "serving" => proc'.status = "serving"]_vars

\* a call has ended with an exception thrown while formatting, a later call
\* has sent its request and has been answered, and the process is serving
C15_Witness ==
  /\ proc.status = "serving"
  /\ \E c, d \in Done :
       /\ c < d
       /\ calls[c].name = "ticktick_filter_tasks"
       /\ Len(calls[c].rcvd) = 1
       /\ FirstReplyOk(c)
       /\ EndedWithError(c, InternalError)
       /\ Len(calls[d].sent) = 1 /\ Len(calls[d].rcvd) = 1

\* a create_task call has returned its result
TaskCreated ==
  \E c \in Done : calls[c].name = "ticktick_create_task" /\ EndedWithContent(c)

\* the step is a tools/call of the named tool, as call d
Calls(d, name) == calls[d].st = "idle" /\ calls'[d].st # "idle" /\ calls'[d].name = name

\* C16 (as claimed): a get_cached_tasks call made after a create_task call
\* has returned its result returns a content result (the list with the
\* created task).
C16_CreatedTaskIsCached ==
  [][\A d \in CallIds :
       (TaskCreated /\ Calls(d, "ticktick_get_cached_tasks"))
         => /\ calls'[d].st = "done"
            /\ calls'[d].out[1].kind = "result"]_vars

\* a call is done with the result of the named tool
Returns(d, name) == calls[d].name = name => EndedWithContent(d)

\* C17 (as claimed): a finished call to get_cached_tasks, register_task_id or
\* import_from_csv with the documented arguments, made with credentials
\* configured, has returned a content result.
C17_CacheToolsAreCallable ==
  \A d \in Done :
    CredentialsConfigured =>
      /\ Returns(d, "ticktick_get_cached_tasks")
      /\ Returns(d, "ticktick_register_task_id")
      /\ Returns(d, "ticktick_import_from_csv")

\* C18 (as claimed): a get_task_details call given project_id P and task_id T,
\* made with credentials configured, sends GET /project/P/task/T.
C18_TaskDetailsByProject ==
  \A c \in Started :
    ( /\ CredentialsConfigured
      /\ calls[c].name = "ticktick_get_task_details"
      /\ calls[c].args # <<>>
      /\ {"project_id", "task_id"} \subseteq DOMAIN ArgsOf(c) )
    => /\ Len(calls[c].sent) >= 1
       /\ calls[c].sent[1].method = "GET"
       /\ calls[c].sent[1].url =
            <<baseUrl, "/project/", ArgsOf(c).project_id, "/task/", ArgsOf(c).task_id>>

\* the url has the query parameter with the value
HasParam(url, key, value) ==
  \E i \in 1..(Len(url) - 1) : url[i] = key /\ url[i + 1] = value

\* C19 (as claimed): with credentials configured, a call of
\* ticktick_check_in_habit with habit_id and date is routed to a handler and
\* sends the check-in request, and a call of ticktick_get_productivity_report
\* with period sends a request whose query carries that period.
C19_ReadmeExamplesWork ==
  \A c \in Started :
    (CredentialsConfigured /\ calls[c].args # <<>>) =>
      /\ ( /\ calls[c].name = "ticktick_check_in_habit"
           /\ {"habit_id", "date"} \subseteq DOMAIN ArgsOf(c) )
         => /\ ~EndedUnknown(c)
            /\ Len(calls[c].sent) >= 1
            /\ calls[c].sent[1].method = "POST"
            /\ calls[c].sent[1].url = <<baseUrl, "/habit/checkin">>
      /\ ( /\ calls[c].name = "ticktick_get_productivity_report"
           /\ "period" \in DOMAIN ArgsOf(c) )
         => /\ Len(calls[c].sent) >= 1
            /\ HasParam(calls[c].sent[1].url, "range=", ArgsOf(c).period)

\* C20 (as claimed): every line written to standard output is a JSON-RPC
\* message.
C20_StdoutIsJsonRpc == \A l \in stdout : l.rpc

\* the outcome of a finished call
OutcomeOf(c) == calls[c].out[1]

\* the message of the error a handler's catch throws starts with its
\* 'Failed to ...' text
HandlerMessage(c, message) ==
  /\ Len(message) >= 3
  /\ message[1] = ToolTable[calls[c].name].fail
  /\ message[2] = ": "

\* C21: a call has no outcome until it ends and exactly one when it has ended,
\* a content result or an McpError, and the outcome never changes afterwards;
\* the error is InvalidRequest exactly when no token is configured, and
\* otherwise InternalError with message 'Error: ' followed by the inner
\* message: 'Unknown tool: <name>' for a name without a case, and the
\* handler's 'Failed to ...: <cause>' for an upstream error, a network error
\* or an exception in the handler.
C21_OutcomeAndErrorCode ==
  /\ [](\A c \in CallIds :
          /\ calls[c].st # "done" => calls[c].out = <<>>
          /\ calls[c].st = "done" =>
               /\ Len(calls[c].out) = 1
               /\ OutcomeOf(c).kind \in {"result", "error"}
               /\ ~CredentialsConfigured => EndedWithError(c, InvalidRequest)
               /\ (CredentialsConfigured /\ OutcomeOf(c).kind = "error") =>
                    LET message == OutcomeOf(c).error.message
                    IN /\ OutcomeOf(c).error.code = InternalError
                       /\ message[1] = "Error: "
                       /\ calls[c].name \notin Registered =>
                            Tail(message) = <<"Unknown tool: ", calls[c].name>>
                       /\ (calls[c].name \in Registered /\ calls[c].args # <<>>) =>
                            HandlerMessage(c, Tail(message))
                       /\ (calls[c].rcvd # <<>> /\ calls[c].rcvd[Len(calls[c].rcvd)] = <<>>) =>
                            Tail(message) =
                              <<ToolTable[calls[c].name].fail, ": ", "fetch failed">>
               /\ (CredentialsConfigured /\ calls[c].name \notin Registered) =>
                    OutcomeOf(c).kind = "error"
               /\ HasFailed(c) => OutcomeOf(c).kind = "error")
  /\ [][\A c \in CallIds : calls[c].st = "done" => calls'[c] = calls[c]]_vars

C21_Witness ==
  \E c, d \in Done :
    /\ EndedWithError(c, InternalError) /\ calls[c].rcvd = << <<>> >>
    /\ EndedWithContent(d)
    /\ calls[d].name = "ticktick_get_projects"

\* the tools that read a resource and then delete it
ReadThenDelete ==
  {"ticktick_delete_task_note", "ticktick_delete_task_attachment",
   "ticktick_delete_task_template"}

\* the first request of the call has been answered, and not by a 2xx response
\* with a JSON body
FirstGetFailed(c) == Len(calls[c].rcvd) >= 1 /\ ~FirstReplyOk(c)

\* C22: in the three read-then-delete tools a DELETE is the second request of
\* the invocation, after a GET of the same resource that succeeded; when the
\* GET fails no DELETE is sent, the step in which it fails deletes nothing
\* upstream and the invocation ends with an error; when the GET succeeds the
\* DELETE is the next request.
C22_DeleteOnlyAfterGet ==
  /\ [](\A c \in Started : calls[c].name \in ReadThenDelete =>
          /\ \A i \in 1..Len(calls[c].sent) :
               /\ i = 1 => calls[c].sent[i].method = "GET"
               /\ calls[c].sent[i].method = "DELETE" =>
                    /\ i = 2
                    /\ calls[c].sent[1].url = calls[c].sent[2].url
                    /\ FirstReplyOk(c)
          /\ FirstGetFailed(c) =>
               /\ Len(calls[c].sent) = 1
               /\ EndedWithError(c, InternalError)
          /\ FirstReplyOk(c) =>
               /\ Len(calls[c].sent) = 2
               /\ calls[c].sent[2].method = "DELETE"
               /\ calls[c].sent[2].url = calls[c].sent[1].url)
  /\ [][\A c \in CallIds :
          (calls[c].name \in ReadThenDelete /\ calls'[c] # calls[c] /\ FirstGetFailed(c)')
            => removed' = removed]_vars
  /\ [][removed' # removed =>
          \E c \in CallIds :
            /\ calls'[c] # calls[c]
            /\ calls[c].sent[Len(calls[c].sent)].method = "DELETE"
            /\ removed' = removed \cup {Tail(calls[c].sent[Len(calls[c].sent)].url)}]_vars

C22_Witness ==
  \E c, d \in Done :
    /\ calls[c].name = "ticktick_delete_task_note"
    /\ calls[c].args = <<[task_id |-> "T1", note_id |-> "T1"]>>
    /\ EndedWithContent(c)
    /\ removed = {<<"/task/", "T1", "/note/", "T1">>}
    /\ calls[d].name = calls[c].name /\ FirstGetFailed(d) /\ Len(calls[d].sent) = 1

\* the call names remove_tag_from_task with a task and a tag
IsRemoveTag(c) ==
  /\ calls[c].name = "ticktick_remove_tag_from_task"
  /\ calls[c].args # <<>>
  /\ {"task_id", "tag_name"} \subseteq DOMAIN ArgsOf(c)

\* the task the call read with its GET, and the tag list of that task
ReadTask(c) == calls[c].rcvd[1][1].body.value
ReadTags(c) == IF "tags" \in DOMAIN ReadTask(c) THEN ReadTask(c).tags ELSE <<>>

\* the body of the PUT of the call
Written(c) == calls[c].sent[2].body

\* the call has sent PUT /task/{task_id} with a body, after its GET
SentPut(c) ==
  /\ Len(calls[c].sent) = 2
  /\ calls[c].sent[2].method = "PUT"
  /\ calls[c].sent[2].url = <<baseUrl, "/task/", ArgsOf(c).task_id>>
  /\ "body" \in DOMAIN calls[c].sent[2]

\* number of occurrences of x in s
Count(s, x) == Cardinality({i \in 1..Len(s) : s[i] = x})

\* C23: the PUT of add_tag_to_task carries the tags the GET read, with
\* tag_name appended once when it was absent and unchanged when it was
\* present, so the tag occurs no more often than before unless it was
\* absent, and then once; every other field of the task read is written
\* back unchanged and no field is added.
C23_AddTagIdempotent ==
  \A c \in Started :
    (IsAddTag(c) /\ Len(calls[c].sent) = 2) =>
      LET tag == ArgsOf(c).tag_name
      IN /\ SentPut(c)
         /\ Written(c).tags = (IF \E i \in 1..Len(ReadTags(c)) : ReadTags(c)[i] = tag
                               THEN ReadTags(c)
                               ELSE ReadTags(c) \o <<tag>>)
         /\ Count(Written(c).tags, tag) =
              (IF Count(ReadTags(c), tag) = 0 THEN 1 ELSE Count(ReadTags(c), tag))
         /\ DOMAIN Written(c) = DOMAIN ReadTask(c) \cup {"tags"}
         /\ \A f \in DOMAIN ReadTask(c) \ {"tags"} : Written(c)[f] = ReadTask(c)[f]

C23_Witness ==
  \E c, d \in Done :
    /\ IsAddTag(c) /\ IsAddTag(d) /\ ArgsOf(c) = ArgsOf(d)
    /\ EndedWithContent(c) /\ EndedWithContent(d)
    /\ ReadTags(c) = <<"work">> /\ Written(c).tags = <<"work", "home">>
    /\ ReadTags(d) = <<"work", "home">> /\ Written(d).tags = <<"work", "home">>
    /\ Written(d).title = "Write report"

\* the tags of s that are not x, in the order of s
Without(s, x) ==
  LET keep(t) == t # x
  IN SelectSeq(s, keep)

\* the tag list of the task upstream
StoredTags(id) == IF "tags" \in DOMAIN upstream[id] THEN upstream[id].tags ELSE <<>>

\* C24: the PUT of remove_tag_from_task carries the tags the GET read without
\* any occurrence of tag_name, the others in their order, and a task read
\* without a tags field is written with an empty list; when a
\* remove_tag_from_task(t) reads the task that an add_tag_to_task(t) wrote,
\* and t was not on the task the add read, it writes back the tag list the
\* add read, and once both have returned that list is the one upstream.
C24_RemoveTag ==
  \A d \in Started :
    (IsRemoveTag(d) /\ Len(calls[d].sent) = 2) =>
      LET tag == ArgsOf(d).tag_name
      IN /\ SentPut(d)
         /\ Written(d).tags = Without(ReadTags(d), tag)
         /\ Count(Written(d).tags, tag) = 0
         /\ "tags" \notin DOMAIN ReadTask(d) => Written(d).tags = <<>>
         /\ \A f \in DOMAIN ReadTask(d) \ {"tags"} : Written(d)[f] = ReadTask(d)[f]
         /\ \A c \in Done :
              ( /\ IsAddTag(c) /\ EndedWithContent(c)
                /\ ArgsOf(c) = ArgsOf(d)
                /\ Count(ReadTags(c), tag) = 0
                /\ ReadTask(d) = Written(c) )
              => /\ Written(d).tags = ReadTags(c)
                 /\ (Cardinality(Started) = 2 /\ EndedWithContent(d))
                      => StoredTags(ArgsOf(d).task_id) = ReadTags(c)

C24_Witness ==
  \E c, d \in Done :
    /\ IsAddTag(c) /\ IsRemoveTag(d) /\ ArgsOf(c) = ArgsOf(d)
    /\ EndedWithContent(c) /\ EndedWithContent(d)
    /\ ReadTags(c) = <<"work", "errands", "work", "later">>
    /\ ReadTask(d) = Written(c)
    /\ upstream["T1"].tags = <<"work", "errands", "work", "later">>

\* the arguments of update_habit and update_tag and the fields they set
HabitFields ==
  [name |-> "name", frequency |-> "frequency", goal |-> "goal",
   reminder_time |-> "reminderTime", color |-> "color"]
TagFields == [name |-> "name", color |-> "color"]

\* the argument is supplied with a truthy value (goal is the number)
SuppliedTruthy(o, a) ==
  a \in DOMAIN o /\ (IF a = "goal" THEN o[a] # 0 ELSE o[a] # "")

\* the body is the object read, except that each argument of the map
\* supplied truthy has overwritten its field
Overwritten(body, read, o, map) ==
  /\ DOMAIN body = DOMAIN read \cup {map[a] : a \in {b \in DOMAIN map : SuppliedTruthy(o, b)}}
  /\ \A a \in DOMAIN map :
       IF SuppliedTruthy(o, a) THEN body[map[a]] = o[a]
       ELSE map[a] \in DOMAIN read => body[map[a]] = read[map[a]]
  /\ \A f \in DOMAIN read \ {map[a] : a \in DOMAIN map} : body[f] = read[f]

\* C25: update_habit and update_tag GET the resource and then PUT, to the
\* same path, the object read with each field overwritten whose argument is
\* supplied with a truthy value; a field whose argument is absent, 0 or ""
\* keeps the value read; when the GET fails no PUT is sent.
C25_UpdateIsReadModifyWrite ==
  \A c \in Started :
    (calls[c].name \in {"ticktick_update_habit", "ticktick_update_tag"}
       /\ calls[c].args # <<>>) =>
      /\ Len(calls[c].sent) >= 1 => calls[c].sent[1].method = "GET"
      /\ FirstGetFailed(c) => Len(calls[c].sent) = 1 /\ EndedWithError(c, InternalError)
      /\ FirstReplyOk(c) =>
           /\ Len(calls[c].sent) = 2
           /\ calls[c].sent[2].method = "PUT"
           /\ calls[c].sent[2].url = calls[c].sent[1].url
           /\ "body" \in DOMAIN calls[c].sent[2]
           /\ Overwritten(Written(c), ReadTask(c), ArgsOf(c),
                          IF calls[c].name = "ticktick_update_habit"
                          THEN HabitFields ELSE TagFields)

C25_Witness ==
  \E c, d \in Started :
    /\ calls[c].name = "ticktick_update_habit"
    /\ calls[c].args = <<[habit_id |-> "H1", goal |-> 0, reminder_time |-> "07:00"]>>
    /\ Len(calls[c].sent) = 2
    /\ Written(c).goal = 1 /\ Written(c).reminderTime = "07:00"
    /\ calls[d].name = calls[c].name /\ FirstGetFailed(d)

\* the call names update_task with an argument object that has task_id
IsUpdateTask(c) ==
  /\ calls[c].name = "ticktick_update_task"
  /\ calls[c].args # <<>>
  /\ "task_id" \in DOMAIN ArgsOf(c)

\* the arguments of update_task and the fields of the body they set
TaskFields ==
  [title |-> "title", content |-> "content", priority |-> "priority",
   due_date |-> "dueDate", completed |-> "status"]

IsComplete(c) ==
  /\ calls[c].name = "ticktick_complete_task"
  /\ calls[c].args # <<>>
  /\ DOMAIN ArgsOf(c) = {"task_id"}

\* the call is update_task with task_id and completed: true alone
IsUpdateCompleted(c) ==
  /\ calls[c].name = "ticktick_update_task"
  /\ calls[c].args # <<>>
  /\ DOMAIN ArgsOf(c) = {"task_id", "completed"}
  /\ ArgsOf(c).completed

\* C27: with credentials configured, complete_task and update_task with only
\* task_id and completed: true each send a single request, POST
\* /task/{task_id} with body {status: 2}, and for the same task id the two
\* requests are equal.
C27_CompleteEqualsUpdate ==
  /\ \A c \in Started :
       (CredentialsConfigured /\ (IsComplete(c) \/ IsUpdateCompleted(c))) =>
         /\ Len(calls[c].sent) = 1
         /\ LET r == calls[c].sent[1]
            IN /\ r.method = "POST"
               /\ r.url = <<"https://api.ticktick.com/open/v1", "/task/", ArgsOf(c).task_id>>
               /\ DOMAIN r = {"method", "url", "headers", "body"}
               /\ r.body = [status |-> 2]
  /\ \A c, d \in Started :
       ( /\ CredentialsConfigured
         /\ IsComplete(c) /\ IsUpdateCompleted(d)
         /\ ArgsOf(c).task_id = ArgsOf(d).task_id ) => calls[c].sent = calls[d].sent

C27_Witness ==
  \E c, d \in Done :
    /\ IsComplete(c) /\ IsUpdateCompleted(d)
    /\ ArgsOf(c).task_id = "T2" /\ ArgsOf(d).task_id = "T2"
    /\ calls[c].sent = calls[d].sent /\ Len(calls[c].sent) = 1
    /\ EndedWithContent(c) /\ EndedWithContent(d)

\* the call names get_tasks with an argument object
IsGetTasks(c) == calls[c].name = "ticktick_get_tasks" /\ calls[c].args # <<>>

\* the value that follows the key in the query string, if the key is there
ParamValues(url, key) == {url[i + 1] : i \in {j \in 1..(Len(url) - 1) : url[j] = key}}

\* C28: with credentials configured, get_tasks sends one GET whose path is
\* /task followed by '?' and the parameters: projectId, with the value
\* given, exactly when project_id is given and not empty; status exactly
\* when completed is given, 2 for true and 0 for false; limit always, 50 when
\* not given; in this order, joined by '&', each at most once.
C28_GetTasksQuery ==
  \A c \in Started : (CredentialsConfigured /\ IsGetTasks(c)) =>
    LET o == ArgsOf(c)
        url == calls[c].sent[1].url
        project == "project_id" \in DOMAIN o /\ o.project_id # ""
        status == "completed" \in DOMAIN o
    IN /\ Len(calls[c].sent) = 1
       /\ calls[c].sent[1].method = "GET"
       /\ "body" \notin DOMAIN calls[c].sent[1]
       /\ SubSeq(url, 1, 3) = <<"https://api.ticktick.com/open/v1", "/task", "?">>
       /\ ParamValues(url, "projectId=") = (IF project THEN {o.project_id} ELSE {})
       /\ ParamValues(url, "status=") =
            (IF status THEN {IF o.completed THEN "2" ELSE "0"} ELSE {})
       /\ ParamValues(url, "limit=") =
            {IF "limit" \in DOMAIN o
             THEN (IF o.limit = 0 THEN "0" ELSE "10") ELSE "50"}
       /\ Len(url) = 3 + 3 * ((IF project THEN 1 ELSE 0) + (IF status THEN 1 ELSE 0) + 1)
       /\ \A i \in 4..Len(url) : i % 3 = 1 => url[i] = (IF i = 4 THEN "" ELSE "&")

C28_Witness ==
  \E c, d \in Started :
    /\ IsGetTasks(c) /\ IsGetTasks(d)
    /\ ArgsOf(c) = [project_id |-> "", completed |-> FALSE]
    /\ Len(calls[c].sent) = 1
    /\ calls[c].sent[1].url =
         <<"https://api.ticktick.com/open/v1", "/task", "?", "", "status=", "0",
           "&", "limit=", "50">>
    /\ EndedWithContent(d)

\* the call names get_projects with an argument object
IsGetProjects(c) == calls[c].name = "ticktick_get_projects" /\ calls[c].args # <<>>

\* the array the GET of the call returned, and the text the call returned
ItemsRead(c) == calls[c].rcvd[1][1].body.items
TextOf(c) == OutcomeOf(c).result.content[1].text

\* the ids of the items that satisfy the test, in the order of the items
IdsWhere(items, Test(_)) ==
  LET picked == SelectSeq(items, Test)
  IN [i \in 1..Len(picked) |-> picked[i].id]

\* C29: get_projects that returns a result lists, in the order of the reply
\* of GET /project, all the projects when include_archived is true and
\* exactly those whose closed flag is absent or false when it is false or
\* omitted, and the count of its header is the number of projects listed.
C29_GetProjectsListing ==
  \A c \in Done : (IsGetProjects(c) /\ EndedWithContent(c)) =>
    LET all(p) == TRUE
        open(p) == "closed" \notin DOMAIN p \/ p.closed = FALSE
        archived == "include_archived" \in DOMAIN ArgsOf(c) /\ ArgsOf(c).include_archived
    IN /\ TextOf(c).ids = (IF archived THEN IdsWhere(ItemsRead(c), all)
                           ELSE IdsWhere(ItemsRead(c), open))
       /\ TextOf(c).found = Len(TextOf(c).ids)

C29_Witness ==
  \E c, d \in Done :
    /\ IsGetProjects(c) /\ EndedWithContent(c)
    /\ ArgsOf(c) = [include_archived |-> FALSE]
    /\ TextOf(c) = [found |-> 2, ids |-> <<"P1", "P3">>]
    /\ IsGetProjects(d) /\ ~EndedWithContent(d)

\* the call names filter_tasks with an argument object
IsFilterTasks(c) == calls[c].name = "ticktick_filter_tasks" /\ calls[c].args # <<>>

\* the keyword occurs in the text, letter case aside, for the texts and
\* keywords of the runs
Mentions(text, keyword) ==
  \/ /\ keyword \in {"report", "REPORT"}
     /\ text \in {"Write report", "for the REPORT"}

\* days of January 2025 of the dates of the runs; 0 for a string that is no
\* date
DayOf(s) ==
  CASE s \in {"2025-01-15T10:00:00"} -> 15
    [] s \in {"2025-01-20T09:00:00.000+0000", "2025-01-20"} -> 20
    [] s = "2025-01-25" -> 25
    [] OTHER -> 0

\* the task meets every criterion the arguments give (an empty keyword is
\* met by every task)
Matches(task, o) ==
  /\ ("keywords" \in DOMAIN o /\ o.keywords # "") =>
       \/ "title" \in DOMAIN task /\ Mentions(task.title, o.keywords)
       \/ "content" \in DOMAIN task /\ Mentions(task.content, o.keywords)
  /\ ("tags" \in DOMAIN o /\ o.tags # <<>>) =>
       /\ "tags" \in DOMAIN task
       /\ \E i \in 1..Len(o.tags), j \in 1..Len(task.tags) : o.tags[i] = task.tags[j]
  /\ "priority" \in DOMAIN o => ("priority" \in DOMAIN task /\ task.priority = o.priority)
  /\ "due_before" \in DOMAIN o =>
       /\ "dueDate" \in DOMAIN task
       /\ DayOf(task.dueDate) # 0 /\ DayOf(o.due_before) # 0
       /\ DayOf(task.dueDate) < DayOf(o.due_before)
  /\ "due_after" \in DOMAIN o =>
       /\ "dueDate" \in DOMAIN task
       /\ DayOf(task.dueDate) # 0 /\ DayOf(o.due_after) # 0
       /\ DayOf(task.dueDate) > DayOf(o.due_after)

\* C30 (as claimed): filter_tasks whose GET /task was answered with the tasks
\* returns a result that lists, of these tasks, exactly those that meet every
\* criterion given: keyword in title or content whatever the letter case, a
\* common tag, equal priority, due date strictly before due_before and
\* strictly after due_after; and all of them when no criterion is given.
C30_FilterIsConjunction ==
  \A c \in Done : (IsFilterTasks(c) /\ FirstReplyOk(c)) =>
    LET meets(task) == Matches(task, ArgsOf(c))
    IN /\ EndedWithContent(c)
       /\ TextOf(c).ids = IdsWhere(ItemsRead(c), meets)
       /\ TextOf(c).found = Len(TextOf(c).ids)
=============================================================================
